---- MODULE Spec2Model ----
(***************************************************************************)
(* IronCore: the experience rate tracker (ironcore_bot/exp_tracker.py) and *)
(* the skills watcher (ironcore_bot/skills.py) as state machines.          *)
(*                                                                         *)
(* Python's Optional[T] is modelled as a sequence of length at most one:   *)
(* None is <<>> and a present value v is <<v>>.                            *)
(***************************************************************************)
EXTENDS Integers, Sequences, FiniteSets, TLC

None == <<>>

Some(v) == <<v>>

Max(a, b) == IF a >= b THEN a ELSE b

Min(a, b) == IF a <= b THEN a ELSE b

(***************************************************************************)
(* Bounds of the model.                                                    *)
(***************************************************************************)
\* the wall clock (time.time()) advances at most this many times
MaxAdvances == 3

\* update is not called on a history that already holds this many snapshots
MaxHist == 3

\* the wall-clock jumps, in seconds, between two calls of the tracker
TimeSteps == {60, 600, 3600}

\* experience readings handed to the tracker
ExpInputs == {1000, 1500}

(***************************************************************************)
(* ExpTracker                                                              *)
(***************************************************************************)
VARIABLES
    baseline,   \* ExpTracker.baseline: Optional[int]
    history,    \* ExpTracker.history: the deque of ExpSnapshot, oldest first
    wall,       \* time.time(), in seconds
    advances,   \* how many times the wall clock has advanced
    call,       \* the last call made on the tracker: its name and arguments
    ret,        \* what that call returned (update's dict, a queried delta)
    reset_exp,  \* the experience of the latest reset, explicit or implicit
    reset_at    \* the timestamp of the snapshot of the latest reset

trackerVars == <<baseline, history, wall, advances, call, ret, reset_exp, reset_at>>

MAX_WINDOW_SEC == 60 * 60

\* the windows update reports: "1m", "10m", "60m"
Windows == {1 * 60, 10 * 60, 60 * 60}

ExpSnapshot(ts, e) == [timestamp |-> ts, exp |-> e]

\* reset with the history kept: the snapshot is appended to what was there
reset_keeping_history(self, exp, timestamp, clock) ==
    [baseline |-> exp,
     history |-> IF exp # None
                 THEN Append(self.history,
                             ExpSnapshot(IF timestamp # None THEN timestamp[1] ELSE clock, exp[1]))
                 ELSE self.history]

\* ExpTracker.reset; clock is what time.time() returns during the call
reset(self, exp, timestamp, clock) ==
    [baseline |-> exp,
     history |-> IF exp # None
                 THEN <<ExpSnapshot(IF timestamp # None THEN timestamp[1] ELSE clock, exp[1])>>
                 ELSE <<>>]

\* a prune that removes nothing
_prune_nothing(h, now) == h

\* a prune whose cutoff is the time of the call, so that it takes the
\* snapshot of the call as well
_prune_up_to_now(h, now) == SelectSeq(h, LAMBDA snap : snap.timestamp > now)

RECURSIVE _prune(_, _)
\* ExpTracker._prune: pops from the left while the oldest snapshot is too old
_prune(h, now) ==
    IF h # <<>> /\ Head(h).timestamp < now - MAX_WINDOW_SEC
    THEN _prune(Tail(h), now)
    ELSE h

RECURSIVE first_at_or_after(_, _, _)
\* the first loop of _baseline_for_window: the index of the first snapshot,
\* oldest first, with timestamp >= cutoff; 0 when the loop ends without one
first_at_or_after(h, cutoff, i) ==
    IF i > Len(h) THEN 0
    ELSE IF h[i].timestamp >= cutoff THEN i
    ELSE first_at_or_after(h, cutoff, i + 1)

RECURSIVE last_at_or_before(_, _, _)
\* the second loop: the index of the first snapshot, newest first, with
\* timestamp <= cutoff; 0 when the loop ends without one
last_at_or_before(h, cutoff, i) ==
    IF i < 1 THEN 0
    ELSE IF h[i].timestamp <= cutoff THEN i
    ELSE last_at_or_before(h, cutoff, i - 1)

\* a baseline search that takes the newest snapshot of the window
_baseline_newest_in_window(h, cutoff) ==
    IF h = <<>> THEN None
    ELSE LET after == Len(h)
             before == last_at_or_before(h, cutoff, Len(h))
         IN  IF h[after].timestamp >= cutoff THEN Some(h[after].exp)
             ELSE IF before # 0 THEN Some(h[before].exp)
             ELSE None

\* ExpTracker._baseline_for_window
_baseline_for_window(h, cutoff) ==
    IF h = <<>> THEN None
    ELSE LET after == first_at_or_after(h, cutoff, 1)
             before == last_at_or_before(h, cutoff, Len(h))
         IN  IF after # 0 THEN Some(h[after].exp)
             ELSE IF before # 0 THEN Some(h[before].exp)
             ELSE None

\* a delta taken against the snapshot before the newest one
_delta_since_previous(h, now, window_sec) ==
    IF h = <<>> THEN None
    ELSE Some(h[Len(h)].exp - h[Max(1, Len(h) - 1)].exp)

\* ExpTracker._delta_for_window
_delta_for_window(h, now, window_sec) ==
    LET cutoff == now - window_sec
        base == _baseline_for_window(h, cutoff)
        latest == IF h # <<>> THEN Some(h[Len(h)].exp) ELSE None
    IN  IF base = None \/ latest = None THEN None
        ELSE Some(latest[1] - base[1])

\* what update returns for exp = None
NoDeltas == [m10 |-> None, m60 |-> None, m1 |-> None, total |-> None]

\* an update that appends nothing when the reading repeats the newest snapshot
update_skipping_repeat(self, exp, now) ==
    IF exp = None
    THEN [baseline |-> self.baseline, history |-> self.history, ret |-> NoDeltas]
    ELSE LET st == IF self.baseline = None
                   THEN reset(self, exp, Some(now), now)
                   ELSE IF self.history # <<>>
                           /\ self.history[Len(self.history)] = ExpSnapshot(now, exp[1])
                        THEN [baseline |-> self.baseline, history |-> self.history]
                        ELSE [baseline |-> self.baseline,
                              history |-> Append(self.history, ExpSnapshot(now, exp[1]))]
             h == _prune(st.history, now)
         IN  [baseline |-> st.baseline,
              history |-> h,
              ret |-> [m10 |-> _delta_for_window(h, now, 10 * 60),
                       m60 |-> _delta_for_window(h, now, 60 * 60),
                       m1 |-> _delta_for_window(h, now, 1 * 60),
                       total |-> Some(exp[1] - (IF st.baseline # None
                                                THEN st.baseline[1] ELSE exp[1]))]]

\* an update that takes every reading as the new baseline
update_rebaselining(self, exp, now) ==
    IF exp = None
    THEN [baseline |-> self.baseline, history |-> self.history, ret |-> NoDeltas]
    ELSE LET st == [baseline |-> exp,
                    history |-> Append(self.history, ExpSnapshot(now, exp[1]))]
             h == _prune(st.history, now)
         IN  [baseline |-> st.baseline,
              history |-> h,
              ret |-> [m10 |-> _delta_for_window(h, now, 10 * 60),
                       m60 |-> _delta_for_window(h, now, 60 * 60),
                       m1 |-> _delta_for_window(h, now, 1 * 60),
                       total |-> Some(exp[1] - st.baseline[1])]]

\* ExpTracker.update; now is what time.time() returns during the call
update(self, exp, now) ==
    IF exp = None
    THEN [baseline |-> self.baseline, history |-> self.history, ret |-> NoDeltas]
    ELSE LET st == IF self.baseline = None
                   THEN reset(self, exp, Some(now), now)
                   ELSE [baseline |-> self.baseline,
                         history |-> Append(self.history, ExpSnapshot(now, exp[1]))]
             h == _prune(st.history, now)
         IN  [baseline |-> st.baseline,
              history |-> h,
              ret |-> [m10 |-> _delta_for_window(h, now, 10 * 60),
                       m60 |-> _delta_for_window(h, now, 60 * 60),
                       m1 |-> _delta_for_window(h, now, 1 * 60),
                       total |-> Some(exp[1] - (IF st.baseline # None
                                                THEN st.baseline[1] ELSE exp[1]))]]

Tracker == [baseline |-> baseline, history |-> history]

\* the state after ExpTracker.__init__; the clock has run for some time
InitTracker ==
    /\ baseline = None
    /\ history = <<>>
    /\ wall = 0
    /\ advances = 0
    /\ call = [op |-> "init"]
    /\ ret = None
    /\ reset_exp = None
    /\ reset_at = None

(***************************************************************************)
(* Text.  A Python str is a sequence of one-character strings; the regular *)
(* expressions of skills.py are matched as re matches them, over the       *)
(* characters the readers can return.                                      *)
(***************************************************************************)
Digits == {"0", "1", "2", "3", "4", "5", "6", "7", "8", "9"}

\* \s, of which the readers return the blank only
Spaces == {" "}

DigitValue(c) ==
    CASE c = "0" -> 0 [] c = "1" -> 1 [] c = "2" -> 2 [] c = "3" -> 3 [] c = "4" -> 4
      [] c = "5" -> 5 [] c = "6" -> 6 [] c = "7" -> 7 [] c = "8" -> 8 [] c = "9" -> 9

RECURSIVE ToInt(_)
\* int(s) of a digit string
ToInt(s) ==
    IF s = <<>> THEN 0
    ELSE 10 * ToInt(SubSeq(s, 1, Len(s) - 1)) + DigitValue(s[Len(s)])

RECURSIVE RunEnd(_, _, _)
\* the index after the longest run of characters of class that starts at i:
\* where a greedy class* stops
RunEnd(s, i, class) ==
    IF i <= Len(s) /\ s[i] \in class THEN RunEnd(s, i + 1, class) ELSE i

\* s[i..j-1]
Slice(s, i, j) == SubSeq(s, i, j - 1)

\* the character at i is c
At(s, i, c) == i <= Len(s) /\ s[i] = c

RECURSIVE Without(_, _)
\* s.replace(c, "")
Without(s, c) ==
    IF s = <<>> THEN <<>>
    ELSE IF Head(s) = c THEN Without(Tail(s), c)
    ELSE <<Head(s)>> \o Without(Tail(s), c)

\* s.replace(c, d)
Replaced(s, c, d) == [i \in DOMAIN s |-> IF s[i] = c THEN d ELSE s[i]]

\* s.strip()
Strip(s) ==
    LET inked == {i \in DOMAIN s : s[i] \notin Spaces}
    IN  IF inked = {} THEN <<>>
        ELSE SubSeq(s, CHOOSE i \in inked : \A j \in inked : i <= j,
                       CHOOSE i \in inked : \A j \in inked : i >= j)

\* the least index of S, 0 when S is empty: where re.search matches first
FirstOf(S) == IF S = {} THEN 0 ELSE CHOOSE i \in S : \A j \in S : i <= j

\* \(\s*(\d+)(%?)\s*\) matched at i: the bounds of the digit run, of the
\* optional percent sign and the index after the match; ok tells whether it
\* matched.  pct_between allows \s* between the digits and the percent sign.
ParenMatch(s, i, pct_between) ==
    LET d0 == RunEnd(s, i + 1, Spaces)
        d1 == RunEnd(s, d0, Digits)
        p0 == IF pct_between THEN RunEnd(s, d1, Spaces) ELSE d1
        p1 == IF At(s, p0, "%") THEN p0 + 1 ELSE p0
        \* without a percent sign the blanks skipped before it belong to the
        \* \s* before the closing parenthesis
        c0 == RunEnd(s, p1, Spaces)
    IN  [ok |-> At(s, i, "(") /\ d1 > d0 /\ At(s, c0, ")"),
         d0 |-> d0, d1 |-> d1, pct |-> p1 > p0, p1 |-> p1, end |-> c0 + 1]

\* an experience check that accepts every reading that is present
_is_valid_experience_any(val) == val # None /\ val[1] # <<>>

\* _is_valid_experience: bool(val and re.fullmatch(r"[0-9][0-9,\.]*", val))
_is_valid_experience(val) ==
    /\ val # None
    /\ val[1] # <<>>
    /\ val[1][1] \in Digits
    /\ \A i \in DOMAIN val[1] : val[1][i] \in Digits \cup {",", "."}

\* a level check that looks at the leading digit only
_is_valid_level_leading_digit(val) == val # None /\ val[1] # <<>> /\ val[1][1] \in Digits

\* _is_valid_level: bool(val and re.fullmatch(r"\d+(\s*\(\s*\d+%?\s*\))?", val))
_is_valid_level(val) ==
    /\ val # None
    /\ val[1] # <<>>
    /\ LET s == val[1]
           n1 == RunEnd(s, 1, Digits)
           o == RunEnd(s, n1, Spaces)
           m == ParenMatch(s, o, FALSE)
       IN  /\ n1 > 1
           /\ \/ n1 = Len(s) + 1
              \/ m.ok /\ m.end = Len(s) + 1

\* _clean_experience
_clean_experience(raw) ==
    IF raw = None \/ raw[1] = <<>> THEN None
    ELSE LET s == raw[1]
             i == FirstOf({k \in DOMAIN s : s[k] \in Digits})
         IN  IF i = 0 THEN raw
             ELSE Some(Replaced(Without(Slice(s, i, RunEnd(s, i, Digits \cup Spaces \cup {",", "."})),
                                        " "), ".", ","))

\* _clean_level
_clean_level(raw) ==
    IF raw = None \/ raw[1] = <<>> THEN None
    ELSE LET s == raw[1]
             \* (\d+)\s*\(\s*([0-9]+%?)\s*\) matches from i: the digit run that
             \* starts at i is followed by the parenthesis
             par(i) == ParenMatch(s, RunEnd(s, RunEnd(s, i, Digits), Spaces), FALSE)
             i1 == FirstOf({k \in DOMAIN s : s[k] \in Digits /\ par(k).ok})
             i2 == FirstOf({k \in DOMAIN s : s[k] \in Digits})
         IN  IF i1 # 0
             THEN Some(Slice(s, i1, RunEnd(s, i1, Digits)) \o <<" ", "(">>
                       \o Slice(s, par(i1).d0, par(i1).p1) \o <<")">>)
             ELSE IF i2 # 0 THEN Some(Slice(s, i2, RunEnd(s, i2, Digits)))
             ELSE raw

\* a normalization with the full match only, without the two searches
_normalize_skill_value_strict(raw) ==
    IF raw = <<>> THEN raw
    ELSE LET b0 == RunEnd(raw, 1, Spaces)
             b1 == RunEnd(raw, b0, Digits)
             o == RunEnd(raw, b1, Spaces)
             m == ParenMatch(raw, o, TRUE)
         IN  IF b1 > b0 /\ m.ok /\ RunEnd(raw, m.end, Spaces) = Len(raw) + 1
             THEN Slice(raw, b0, b1) \o <<" ", "(">> \o Slice(raw, m.d0, m.d1) \o <<"%", ")">>
             ELSE IF b1 > b0 /\ o = Len(raw) + 1 THEN Slice(raw, b0, b1)
             ELSE Strip(raw)

\* _normalize_skill_value
_normalize_skill_value(raw) ==
    IF raw = <<>> THEN raw
    ELSE LET \* ^\s*(\d+)\s*(?:\(\s*([0-9]+)\s*%?\s*\))?\s*$
             b0 == RunEnd(raw, 1, Spaces)
             b1 == RunEnd(raw, b0, Digits)
             o == RunEnd(raw, b1, Spaces)
             m == ParenMatch(raw, o, TRUE)
             whole == b1 > b0 /\ o = Len(raw) + 1
             whole_pct == b1 > b0 /\ m.ok /\ RunEnd(raw, m.end, Spaces) = Len(raw) + 1
             \* the fallback: (\d+) and \((\d+) searched on their own
             f == FirstOf({k \in DOMAIN raw : raw[k] \in Digits})
             g == FirstOf({k \in DOMAIN raw : raw[k] = "(" /\ RunEnd(raw, k + 1, Digits) > k + 1})
         IN  IF whole_pct
             THEN Slice(raw, b0, b1) \o <<" ", "(">> \o Slice(raw, m.d0, m.d1) \o <<"%", ")">>
             ELSE IF whole THEN Slice(raw, b0, b1)
             ELSE IF f # 0 /\ g # 0
             THEN Slice(raw, f, RunEnd(raw, f, Digits)) \o <<" ", "(">>
                  \o Slice(raw, g + 1, RunEnd(raw, g + 1, Digits)) \o <<"%", ")">>
             ELSE IF f # 0 THEN Slice(raw, f, RunEnd(raw, f, Digits))
             ELSE Strip(raw)

\* the two searches of _parse_skill_value in the normalized text s
parse_normalized(s) ==
    LET \* (\d+)\s*\(\s*([0-9]+)\s*%\s*\) matches from i
        par(i) == ParenMatch(s, RunEnd(s, RunEnd(s, i, Digits), Spaces), TRUE)
        i1 == FirstOf({k \in DOMAIN s : s[k] \in Digits /\ par(k).ok /\ par(k).pct})
        i2 == FirstOf({k \in DOMAIN s : s[k] \in Digits})
    IN  IF i1 # 0
        THEN <<Some(ToInt(Slice(s, i1, RunEnd(s, i1, Digits)))),
               Some(ToInt(Slice(s, par(i1).d0, par(i1).d1)))>>
        ELSE IF i2 # 0 THEN <<Some(ToInt(Slice(s, i2, RunEnd(s, i2, Digits)))), None>>
        ELSE <<None, None>>

\* _parse_skill_value: (level, percent), each an Optional[int]
_parse_skill_value(raw) == parse_normalized(_normalize_skill_value(raw))

(***************************************************************************)
(* SkillsWatcher.  Times are counted in ticks of 0.2 s, the tick_interval  *)
(* of the loop: the monotonic clock, the intervals and the remaining       *)
(* seconds of the estimates.                                               *)
(***************************************************************************)
VARIABLES
    mono,                   \* time.monotonic()
    selected_melee,         \* overlay.selected_melee
    selected_shield_mode,   \* overlay.selected_shield_mode
    show_skills,            \* overlay.show_skills
    clicks,                 \* how many times the user has acted on the overlay
    last_region,
    last_experience,
    last_level,
    last_skills,
    _debug_saved,
    _eta_seconds,
    _eta_last_ts,
    _eta_snapshot,
    _last_emit,
    _last_analyze,
    _last_selected_melee,
    _distance_state,
    _shield_eta_seconds,
    _shield_snapshot,
    _shield_last_ts,
    _last_shield_mode,
    _stop_event,
    pc,                     \* where the worker is in _run
    now,                    \* _run's local now
    info,                   \* _run's local info, until the next step of the worker
    wait_until,             \* when the pending _stop_event.wait times out
    eta_line,               \* the melee ETA line of the last _update_status, if it wrote one
    eta_base,               \* the remaining time and the time of the last melee re-baseline
    switched,               \* the user has changed the selected skill since the last ETA line
    reenabled,              \* the user has switched the skills pane on since the last ETA line
    cleared                 \* a hidden iteration has cleared the ETA state and no
                            \* _update_status has run since

overlayVars == <<selected_melee, selected_shield_mode, show_skills, clicks>>

readVars == <<last_region, last_experience, last_level, last_skills, _debug_saved>>

etaVars == <<_eta_seconds, _eta_last_ts, _eta_snapshot, _distance_state>>

shieldVars == <<_shield_eta_seconds, _shield_snapshot, _shield_last_ts>>

loopVars == <<_last_emit, _last_analyze, _last_selected_melee, _last_shield_mode,
              pc, now, info, wait_until>>

statusVars == <<eta_line, eta_base, switched, reenabled, cleared>>

watcherVars == <<mono, overlayVars, readVars, etaVars, shieldVars, loopVars, _stop_event,
                 statusVars>>

(***************************************************************************)
(* The two threads that reach the tracker, and the calls of the functions  *)
(* of the analysis taken on their own.                                     *)
(***************************************************************************)
VARIABLES
    thread_at,      \* where each thread is inside reset_stats or _update_status
    thread_exp,     \* the experience each thread has read from last_experience
    called,         \* the function of skills.py called last
    call_arg,       \* its arguments
    call_out        \* what it returned

threadVars == <<thread_at, thread_exp>>

callVars == <<called, call_arg, call_out>>

\* CustomActionsRunner, its thread, and the watcher thread inside
\* get_status_lines
VARIABLES
    rnow,                 \* time.time(), in seconds
    iterations,           \* the iterations _loop has begun
    pending,              \* self.pending, the configurations waiting for action2
    active,               \* self.active, the countdowns running
    _down,                \* self._down, the keys seen held at the last poll
    _occurrence_counter,
    _latest_lines,        \* the occurrences of the lines emitted last
    pressed,              \* what _poll_inputs returned to the latest tick
    tick_now,             \* the clock the latest tick read
    runner_pc,            \* where the runner thread is in _loop
    status_pc,            \* where the watcher thread is in get_status_lines
    status_kept,          \* the list the watcher thread has built and not stored
    presses1,             \* per configuration, the presses of action1 polled
    started,              \* per configuration, the countdowns started
    countdowns            \* every countdown started so far

runnerVars == <<rnow, iterations, pending, active, _down, _occurrence_counter,
                _latest_lines, pressed, tick_now, runner_pc, status_pc, status_kept,
                presses1, started, countdowns>>

\* the bot processes started on one machine
VARIABLES
    app_pc,               \* where each process is in run_bot
    mutex_handles,        \* the processes holding a handle of the named mutex
    lock_file,            \* the pid written in LOCK_FILE, None without the file
    made                  \* the processes that created overlay, tracker, runner and watcher

appVars == <<app_pc, mutex_handles, lock_file, made>>

\* the monotonic clock is followed up to this tick
MaxMono == 10

\* the user acts on the overlay at most this many times
MaxClicks == 2

\* analyze_skills returns within this many ticks
MaxAnalysis == 2

\* SkillsWatcher(interval=1.0): analyze_interval = 1.0
analyze_interval == 5

\* emit_interval = 0.1: between two times that are whole ticks, a difference
\* reaches 0.1 s exactly when it reaches one tick
emit_interval == 1

\* tick_interval = min(0.2, max(0.05, interval / 2)) = 0.2
tick_interval == 1

\* the skills the overlay offers of _options_skill_names
SkillOptions == {"Fist", "Sword", "Distance"}

\* str.lower() on the names the overlay offers
Lower(name) ==
    CASE name = "Fist" -> "fist"
      [] name = "Club" -> "club"
      [] name = "Sword" -> "sword"
      [] name = "Axe" -> "axe"
      [] name = "Distance" -> "distance"

MeleeKeys == {"fist", "club", "sword", "axe"}

\* the melee table of skill_tables: ticks to the next level, per level
MeleeSeconds == (1 :> 8) @@ (2 :> 16)

\* the distance table of skill_tables: (sec_min, sec_max, stones_min, stones_max)
DistanceBrackets == (1 :> <<4, 8, 3, 5>>)

\* skill_tables.get_seconds_to_next
get_seconds_to_next(kind, lvl) ==
    IF kind = "melee" /\ lvl \in DOMAIN MeleeSeconds THEN Some(MeleeSeconds[lvl]) ELSE None

\* skill_tables.get_distance_brackets
get_distance_brackets(lvl) ==
    IF lvl \in DOMAIN DistanceBrackets
    THEN [c \in 1..4 |-> Some(DistanceBrackets[lvl][c])]
    ELSE <<None, None, None, None>>

\* lvl or -1
OrMinusOne(lvl) == IF lvl = 0 THEN -1 ELSE lvl

\* pct or 0
OrZero(pct) == IF pct = None THEN 0 ELSE pct[1]

\* math.ceil(a / b) for a >= 0 and b > 0
CeilDiv(a, b) == (a + b - 1) \div b

\* an elapsed time that is not subtracted
Decay_unclamped(remaining, elapsed) == remaining - elapsed

\* max(0.0, remaining - elapsed)
Decay(remaining, elapsed) == Max(0, remaining - elapsed)

\* max(0, now - last_ts)
Elapsed(t, last_ts) == Max(0, t - last_ts)

\* a melee baseline that ignores the percent read
MeleeBaseline_full(seconds_to_next, pct) == seconds_to_next

\* the melee baseline: max(0.0, seconds_to_next * max(0, 100 - pct) / 100), or
\* float(seconds_to_next) without a percent.  The table and the percents read
\* are such that the quotient is whole.
MeleeBaseline(seconds_to_next, pct) ==
    IF pct # None
    THEN Max(0, (seconds_to_next * Max(0, 100 - pct[1])) \div 100)
    ELSE seconds_to_next

\* the selected-skill ETA state of the watcher
EtaState == [seconds |-> _eta_seconds, snapshot |-> _eta_snapshot,
             last_ts |-> _eta_last_ts, distance |-> _distance_state]

\* a reset on switching that keeps the ETA of the skill selected before
ClearedEta_keeping(t) ==
    [seconds |-> _eta_seconds, snapshot |-> _eta_snapshot, last_ts |-> t,
     distance |-> _distance_state]

ClearedEta(t) == [seconds |-> None, snapshot |-> None, last_ts |-> t, distance |-> None]

\* the melee branch of _update_status for the parsed (lvl, pct): the ETA
\* state it leaves and the remaining time of its ETA line, None for "ETA: ?"
MeleeEta(E, sel_key, lvl, pct, t) ==
    LET seconds_to_next == IF lvl # None
                           THEN get_seconds_to_next("melee", OrMinusOne(lvl[1]))
                           ELSE None
        tuple == <<sel_key, lvl, pct>>
        remaining == IF E.snapshot # tuple THEN None ELSE E.seconds
    IN  IF seconds_to_next = None \/ seconds_to_next[1] = 0
        THEN [eta |-> E, line |-> None, rebased |-> FALSE]
        ELSE IF remaining = None
        THEN [eta |-> [seconds |-> Some(MeleeBaseline(seconds_to_next[1], pct)),
                       snapshot |-> tuple, last_ts |-> t, distance |-> E.distance],
              line |-> Some(MeleeBaseline(seconds_to_next[1], pct)),
              rebased |-> TRUE]
        ELSE [eta |-> [seconds |-> Some(Decay(remaining[1], Elapsed(t, E.last_ts))),
                       snapshot |-> tuple, last_ts |-> t, distance |-> E.distance],
              line |-> Some(Decay(remaining[1], Elapsed(t, E.last_ts))),
              rebased |-> FALSE]

\* stones left rounded down instead of up
StonesLeft_floor(base_stones, sec, base_sec) ==
    IF base_sec = 0 THEN 0 ELSE Max(0, (base_stones * sec) \div base_sec)

\* stones left: int(max(0, math.ceil(base_stones * (sec / max(1e-6, base_sec)))));
\* with base_sec = 0 the seconds left are 0 and so is the product
StonesLeft(base_stones, sec, base_sec) ==
    IF base_sec = 0 THEN 0 ELSE Max(0, CeilDiv(base_stones * sec, base_sec))

\* _distance_state with the seconds sec_min, sec_max left of the baseline d
DistanceState(d, sec_min, sec_max) ==
    [sec_min |-> sec_min, sec_max |-> sec_max,
     base_sec_min |-> d.base_sec_min, base_sec_max |-> d.base_sec_max,
     stones_min |-> StonesLeft(d.base_stones_min, sec_min, d.base_sec_min),
     stones_max |-> StonesLeft(d.base_stones_max, sec_max, d.base_sec_max),
     base_stones_min |-> d.base_stones_min, base_stones_max |-> d.base_stones_max]

\* the fresh _distance_state of the brackets br with pct_left percent to go
DistanceBaseline(br, pct_left) ==
    DistanceState([base_sec_min |-> Max(0, (br[1][1] * pct_left) \div 100),
                   base_sec_max |-> Max(0, (br[2][1] * pct_left) \div 100),
                   base_stones_min |-> Max(0, CeilDiv(OrZero(br[3]) * pct_left, 100)),
                   base_stones_max |-> Max(0, CeilDiv(OrZero(br[4]) * pct_left, 100))],
                  Max(0, (br[1][1] * pct_left) \div 100),
                  Max(0, (br[2][1] * pct_left) \div 100))

\* the distance branch of _update_status for the brackets br of the level
DistanceBranch(E, tuple, br, pct_left, t) ==
    IF br[1] = None \/ br[2] = None
    THEN [eta |-> E, line |-> FALSE]
    ELSE [eta |-> [seconds |-> E.seconds, snapshot |-> tuple, last_ts |-> t,
                   distance |->
                       IF E.distance = None \/ E.snapshot # tuple
                       THEN Some(DistanceBaseline(br, pct_left))
                       ELSE Some(DistanceState(E.distance[1],
                                               Decay(E.distance[1].sec_min, Elapsed(t, E.last_ts)),
                                               Decay(E.distance[1].sec_max, Elapsed(t, E.last_ts))))],
          line |-> TRUE]

\* the distance branch of _update_status for the parsed (lvl, pct)
DistanceEta(E, sel_key, lvl, pct, t) ==
    DistanceBranch(E, <<sel_key, lvl, pct>>,
                   get_distance_brackets(OrMinusOne(IF lvl = None THEN 0 ELSE lvl[1])),
                   Max(0, 100 - OrZero(pct)), t)

\* the shielding ETA state of the watcher
ShieldState == [seconds |-> _shield_eta_seconds, snapshot |-> _shield_snapshot,
                last_ts |-> _shield_last_ts]

\* a shielding section that does not halve the seconds in the two-mobs mode
ShieldEta_not_halved(S, shield_val, lvl, pct, mode, t) ==
    LET looked == IF lvl # None THEN get_seconds_to_next("melee", OrMinusOne(lvl[1])) ELSE None
        tuple == <<lvl, pct, mode>>
        remaining == IF pct # None
                     THEN (looked[1] * Max(0, 100 - OrZero(pct))) \div 100 ELSE looked[1]
    IN  IF shield_val = <<>> \/ looked = None \/ looked[1] = 0
        THEN S
        ELSE IF S.snapshot # tuple \/ S.seconds = None
        THEN [seconds |-> Some(Max(0, remaining)), snapshot |-> tuple, last_ts |-> t]
        ELSE [seconds |-> Some(Decay(S.seconds[1], Elapsed(t, S.last_ts))),
              snapshot |-> S.snapshot, last_ts |-> t]

\* the shielding section of _update_status for the parsed (lvl, pct);
\* sec / 2.0 is whole for the table
ShieldEta(S, shield_val, lvl, pct, mode, t) ==
    LET looked == IF lvl # None THEN get_seconds_to_next("melee", OrMinusOne(lvl[1])) ELSE None
        sec == IF mode = 2 THEN looked[1] \div 2 ELSE looked[1]
        tuple == <<lvl, pct, mode>>
        remaining == IF pct # None THEN (sec * Max(0, 100 - OrZero(pct))) \div 100 ELSE sec
    IN  IF shield_val = <<>> \/ looked = None \/ looked[1] = 0
        THEN S
        ELSE IF S.snapshot # tuple \/ S.seconds = None
        THEN [seconds |-> Some(Max(0, remaining)), snapshot |-> tuple, last_ts |-> t]
        ELSE [seconds |-> Some(Decay(S.seconds[1], Elapsed(t, S.last_ts))),
              snapshot |-> S.snapshot, last_ts |-> t]

(***************************************************************************)
(* What one analysis pass can read off the screen.                         *)
(***************************************************************************)
\* the value put in place of a skill row that OCR could not read
CantFindSkill == <<"c", "a", "n", "t", " ", "f", "i", "n", "d", " ", "s", "k", "i", "l", "l">>

\* skill rows OCR can return for the panel: skill key -> text of the value
PanelA ==
    [k \in {"fist", "sword", "distance", "shielding"} |->
        IF k = "fist" THEN <<"2">> ELSE <<"1", "(", "5", "0", "%", ")">>]

PanelB ==
    [k \in {"fist", "sword", "shielding"} |->
        CASE k = "fist" -> CantFindSkill
          [] k = "sword" -> <<"1", " ", "(", "1", "5", "0", "%", "0", ")">>
          [] k = "shielding" -> <<"7">>]

\* a panel of which OCR returns the shielding row only, with a percent
\* above 100
PanelC == [k \in {"shielding"} |-> <<"2", "(", "1", "5", "0", "%", "0", ")">>]

\* Region(anchor.x, anchor.y, PANEL_WIDTH, PANEL_HEIGHT) of a header found
PanelRegion == [x |-> 0, y |-> 0, width |-> 220, height |-> 200]

SkillsInfo(region, experience, level, skills) ==
    [region |-> region, experience |-> experience, level |-> level, skills |-> skills]

\* analyze_skills: anchor is whether the header match reached the threshold
\* (MANUAL_REGION is None); the other arguments are what the readers return
analyze_skills(anchor, exp_tmpl, exp_ocr, lvl_tmpl, lvl_ocr, panel) ==
    IF ~anchor
    THEN SkillsInfo(None, None, None, <<>>)
    ELSE LET exp_val == IF _is_valid_experience(exp_tmpl) THEN exp_tmpl ELSE exp_ocr
             lvl_val == IF _is_valid_level(lvl_tmpl) THEN lvl_tmpl ELSE lvl_ocr
         IN  SkillsInfo(Some(PanelRegion), _clean_experience(exp_val), _clean_level(lvl_val),
                        [k \in DOMAIN panel |-> _normalize_skill_value(panel[k])])

\* the screens of the bounded run: whether the header is matched, what the
\* glyph templates and the OCR engine (whitelist 0123456789,()%) read in the
\* experience and the level box, and the skill rows
Screen(anchor, exp_tmpl, exp_ocr, lvl_tmpl, lvl_ocr, panel) ==
    [anchor |-> anchor, exp_tmpl |-> exp_tmpl, exp_ocr |-> exp_ocr,
     lvl_tmpl |-> lvl_tmpl, lvl_ocr |-> lvl_ocr, panel |-> panel]

Screens ==
    { Screen(FALSE, None, None, None, None, PanelA),
      Screen(TRUE, Some(<<"1", ",", "5">>), None, Some(<<"8">>), None, PanelA),
      Screen(TRUE, Some(<<",", "1">>), Some(<<"2", " ", "5">>), Some(<<"8", "(">>), None, PanelA),
      Screen(TRUE, Some(<<",", "1">>), None, Some(<<"8">>), None, PanelB),
      Screen(TRUE, None, Some(<<"(", "%", ")">>), None, Some(<<"%">>), PanelB),
      Screen(TRUE, Some(<<"1", ",", "5">>), None, Some(<<"8">>), None, PanelC) }

\* every result analyze_skills can return
AnalysisResults ==
    { analyze_skills(s.anchor, s.exp_tmpl, s.exp_ocr, s.lvl_tmpl, s.lvl_ocr, s.panel) :
        s \in Screens }

\* an analysis pass that runs OCR on both boxes whatever the templates read
ocr_calls_always(anchor, exp_tmpl, lvl_tmpl) ==
    IF ~anchor THEN {} ELSE {"experience", "level", "panel"}

\* the calls of the OCR engine analyze_skills makes: _ocr_value_region for the
\* experience and for the level box (lines 524-527), image_to_string and
\* image_to_data for the whole panel (lines 533-549)
ocr_calls(anchor, exp_tmpl, lvl_tmpl) ==
    IF ~anchor THEN {}
    ELSE (IF ~_is_valid_experience(exp_tmpl) THEN {"experience"} ELSE {})
         \cup (IF ~_is_valid_level(lvl_tmpl) THEN {"level"} ELSE {})
         \cup {"panel"}

Region(x, y, width, height) == [x |-> x, y |-> y, width |-> width, height |-> height]

\* a region moved into the window but not cut to its size
_normalize_region_unclipped(region, window) ==
    Region(Max(0, Min(region.x, window.width - region.width)),
           Max(0, Min(region.y, window.height - region.height)),
           region.width, region.height)

\* _normalize_region
_normalize_region(region, window) ==
    LET left == Max(0, Min(region.x, window.width - region.width))
        top == Max(0, Min(region.y, window.height - region.height))
    IN  Region(left, top,
               Min(region.width, window.width - left),
               Min(region.height, window.height - top))

PANEL_WIDTH == 220

PANEL_HEIGHT == 200

\* lines 475-484 of analyze_skills: the region the panel is cropped with, from
\* MANUAL_REGION or else from the header match (None: below the threshold)
crop_region(manual_region, anchor, window) ==
    IF manual_region # None
    THEN Some(_normalize_region(manual_region[1], window))
    ELSE IF anchor = None THEN None
    ELSE Some(_normalize_region(Region(anchor[1].x, anchor[1].y, PANEL_WIDTH, PANEL_HEIGHT),
                                window))

\* positions and sizes of candidate regions, and sizes of windows
Coords == {-5, 0, 100, 700}

Extents == {0, 220, 900}

WindowSizes == {0, 150, 800}

\* the longest raw skill value of the bounded run
MaxRawLen == 5

\* characters of raw skill values: digits, the blank, the signs of the
\* whitelist and a letter
RawAlphabet == {"1", "2", " ", "(", "%", ")", "o"}

\* raw skill values: every text of RawAlphabet up to MaxRawLen characters
\* that starts with a digit, and three noisy readings
RawValues ==
    {r \in UNION {[1..n -> RawAlphabet] : n \in 1..MaxRawLen} : r[1] \in Digits}
    \cup {<<"1", "0", "(", "6", "%", "0", ")">>,
          <<"3", "9", " ", "(", "6", "6", "%", "o", ")">>,
          <<"5", "5">>}

(***************************************************************************)
(* find_number_box of ocr_utils.py (_find_number_box of hp_reader.py is    *)
(* the same code).  An image is one row of pixels, given by its width and  *)
(* by what cv2.matchTemplate scores for each digit template at each        *)
(* position, in hundredths.                                                *)
(***************************************************************************)
\* tmpl.shape[1] and tmpl.shape[0] of the digit templates loaded
TemplateWidth == ("1" :> 1) @@ ("2" :> 2)

TemplateHeight == ("1" :> 6) @@ ("2" :> 7)

\* thresh = 0.55
thresh == 55

\* candidates[:50]
MaxCandidates == 50

\* the width of the images of the bounded run
ImageWidth == 4

\* the scores of a position: below the threshold, above it, and well above
Scores == {50, 60, 90}

\* the template of ch fits into the image at x: roi.shape == tmpl.shape
FitsAt(img, ch, x) == x >= 0 /\ x + TemplateWidth[ch] <= img.width

\* TM_CCOEFF_NORMED of the template of ch at x
Score(img, ch, x) == img.res[ch][x + 1]

\* the positions searched for ch after a glyph whose right edge is at edge:
\* for dx in range(-2, 6), the positions where the template does not fit
\* skipped
SearchWindow(img, ch, edge) == {sx \in {edge + dx : dx \in -2..5} : FitsAt(img, ch, sx)}

\* best_local_x: the first position of the window with the highest score
BestLocalX(img, ch, window) ==
    CHOOSE sx \in window :
        \A o \in window :
            Score(img, ch, sx) > Score(img, ch, o)
            \/ (Score(img, ch, sx) = Score(img, ch, o) /\ sx <= o)

RECURSIVE Extend(_, _, _, _, _)
RECURSIVE ExtendTo(_, _, _, _, _)
\* the inner loop over expected[1:]: cur_x and total_score when it ends
Extend(img, rest, cur_x, prev_w, total_score) ==
    IF rest = <<>> THEN [cur_x |-> cur_x, total_score |-> total_score]
    ELSE IF Head(rest) \notin DOMAIN TemplateWidth
            \/ SearchWindow(img, Head(rest), cur_x + prev_w) = {}
    THEN [cur_x |-> cur_x, total_score |-> -1]
    ELSE ExtendTo(img, rest, cur_x, total_score,
                  BestLocalX(img, Head(rest), SearchWindow(img, Head(rest), cur_x + prev_w)))

\* the end of one round of the inner loop, the best position of the window
\* being best_local_x
ExtendTo(img, rest, cur_x, total_score, best_local_x) ==
    IF Score(img, Head(rest), best_local_x) < thresh
    THEN [cur_x |-> cur_x, total_score |-> -1]
    ELSE Extend(img, Tail(rest), best_local_x, TemplateWidth[Head(rest)],
                total_score + Score(img, Head(rest), best_local_x))

\* np.where(res >= thresh)
Candidates(img, first) ==
    {x \in 0..(img.width - TemplateWidth[first]) : Score(img, first, x) >= thresh}

\* how many candidates stand before x after the sort by falling score, which
\* keeps candidates of equal score in the order of their positions
SortedIndex(img, first, x) ==
    Cardinality({c \in Candidates(img, first) :
                    \/ Score(img, first, c) > Score(img, first, x)
                    \/ (Score(img, first, c) = Score(img, first, x) /\ c < x)})

\* every candidate is tried
AllCandidates(img, first) == Cardinality(Candidates(img, first))

\* how many candidates the outer loop tries: len(candidates[:50])
TriedCandidates(img, first) == Min(MaxCandidates, Cardinality(Candidates(img, first)))

RECURSIVE OuterLoop(_, _, _, _, _, _)
RECURSIVE OuterStep(_, _, _, _, _, _, _)
RECURSIVE OuterEnd(_, _, _, _, _, _, _, _)
\* the outer loop from the candidate of sorted index i on, n candidates
\* being tried, with best and best_score as they stand
OuterLoop(img, expected, i, n, best, best_score) ==
    IF i >= n THEN best
    ELSE OuterStep(img, expected, i, n, best, best_score,
                   CHOOSE x \in Candidates(img, Head(expected)) :
                       SortedIndex(img, Head(expected), x) = i)

\* one round of the outer loop for the candidate at x
OuterStep(img, expected, i, n, best, best_score, x) ==
    OuterEnd(img, expected, i, n, best, best_score, x,
             Extend(img, Tail(expected), x, TemplateWidth[Head(expected)],
                    Score(img, Head(expected), x)))

\* the end of that round, the inner loop having returned chain
OuterEnd(img, expected, i, n, best, best_score, x, chain) ==
    IF chain.total_score > best_score
    THEN OuterLoop(img, expected, i + 1, n,
                   Some(<<x, 0,
                          (chain.cur_x - x) + TemplateWidth[expected[Len(expected)]],
                          Max(TemplateHeight[Head(expected)],
                              TemplateHeight[expected[Len(expected)]])>>),
                   chain.total_score)
    ELSE OuterLoop(img, expected, i + 1, n, best, best_score)

\* find_number_box: None or the box (x, y, width, height)
find_number_box(img, expected) ==
    IF expected = <<>> \/ (\E k \in DOMAIN expected : expected[k] \notin Digits)
    THEN None
    ELSE IF Head(expected) \notin DOMAIN TemplateWidth THEN None
    ELSE OuterLoop(img, expected, 0, TriedCandidates(img, Head(expected)), None, -1)

\* an image of width w with the scores one for the digit 1 and two for the
\* digit 2
Image(w, one, two) == [width |-> w, res |-> ("1" :> one) @@ ("2" :> two)]

\* every image of ImageWidth pixels with scores of Scores
SmallImages ==
    {Image(ImageWidth, one, two) :
        one \in [1..ImageWidth -> Scores], two \in [1..(ImageWidth - 1) -> Scores]}

\* an image with fifty strong matches of the digit 1 on the left, none
\* followed by a 2, and a weaker 1 followed by a 2 further right
CrowdedImage ==
    Image(70, [k \in 1..70 |-> IF k <= 50 THEN 90 ELSE IF k = 61 THEN 60 ELSE 0],
              [k \in 1..69 |-> IF k = 62 THEN 60 ELSE 0])

\* images with a 1 at the left edge and a 2 at the position p
SpacedImages ==
    {Image(10, [k \in 1..10 |-> IF k = 1 THEN 90 ELSE 0],
               [k \in 1..9 |-> IF k = p + 1 THEN 90 ELSE 0]) : p \in 0..8}

\* the expected strings of the bounded run: empty, not a number, one to three
\* digits, and a digit without template
ExpectedStrings ==
    {<<>>, <<"o">>, <<"1">>, <<"1", "2">>, <<"2", "1">>, <<"1", "2", "1">>, <<"1", "3">>}

(***************************************************************************)
(* SkillsWatcher._update_status and SkillsWatcher._run                     *)
(***************************************************************************)
\* the selected-skill ETA state E is stored
StoreEta(E) ==
    /\ _eta_seconds' = E.seconds
    /\ _eta_snapshot' = E.snapshot
    /\ _eta_last_ts' = E.last_ts
    /\ _distance_state' = E.distance

\* the shielding ETA state S is stored
StoreShield(S) ==
    /\ _shield_eta_seconds' = S.seconds
    /\ _shield_snapshot' = S.snapshot
    /\ _shield_last_ts' = S.last_ts

\* lines 633-661: the melee branch has run with the outcome m at time t
MeleeLine(m, t) ==
    /\ StoreEta(m.eta)
    /\ eta_line' = IF m.line # None
                   THEN Some([remaining |-> m.line[1], at |-> t, after_switch |-> switched,
                              after_show |-> reenabled, after_clear |-> cleared])
                   ELSE None
    /\ eta_base' = IF m.rebased THEN Some([remaining |-> m.line[1], at |-> t]) ELSE eta_base
    /\ switched' = IF m.line # None THEN FALSE ELSE switched
    /\ reenabled' = IF m.line # None THEN FALSE ELSE reenabled

\* lines 662-719: the distance branch has run with the outcome d
DistanceLine(d) ==
    /\ StoreEta(d.eta)
    /\ eta_line' = None
    /\ switched' = IF d.line THEN FALSE ELSE switched
    /\ reenabled' = IF d.line THEN FALSE ELSE reenabled
    /\ UNCHANGED eta_base

\* lines 629-719 for the selected key, its value in last_skills (found tells
\* whether it has one) and the (lvl, pct) parsed from it
SelectedLines(E, sel_key, found, value, parsed, t) ==
    IF found /\ sel_key \in MeleeKeys /\ value # <<>>
    THEN MeleeLine(MeleeEta(E, sel_key, parsed[1], parsed[2], t), t)
    ELSE IF found /\ sel_key = "distance" /\ value # <<>>
    THEN DistanceLine(DistanceEta(E, sel_key, parsed[1], parsed[2], t))
    ELSE /\ StoreEta(E)
         /\ eta_line' = None
         /\ UNCHANGED <<eta_base, switched, reenabled>>

\* lines 721-745 for the shielding value and the (lvl, pct) parsed from it
ShieldLines(shield_val, parsed, t) ==
    StoreShield(ShieldEta(ShieldState, shield_val, parsed[1], parsed[2],
                          selected_shield_mode, t))

\* _update_status, called at time t, from line 618 on.  Lines 607-616 hand
\* last_experience to tracker.update and publish its deltas; they read and
\* write nothing of the watcher, and the tracker's calls are the actions of
\* SpecTracker.
_update_status(t) ==
    LET sel_key == Lower(selected_melee)
        found == sel_key \in DOMAIN last_skills
        value_for_selected == IF found THEN last_skills[sel_key] ELSE <<>>
        shield_val == IF "shielding" \in DOMAIN last_skills THEN last_skills["shielding"] ELSE <<>>
    IN  /\ SelectedLines(\* reset ETA when switching selected skill
                         IF _eta_snapshot # None /\ _eta_snapshot[1] # sel_key
                         THEN ClearedEta(t) ELSE EtaState,
                         sel_key, found, value_for_selected,
                         _parse_skill_value(value_for_selected), t)
        /\ ShieldLines(shield_val, _parse_skill_value(shield_val), t)
        /\ cleared' = FALSE

\* the state after SkillsWatcher.__init__ and start(), the overlay as it is
\* constructed; the monotonic clock has run for a second
InitWatcher ==
    /\ mono = analyze_interval
    /\ selected_melee = "Fist"
    /\ selected_shield_mode = 1
    /\ show_skills = TRUE
    /\ clicks = 0
    /\ last_region = None
    /\ last_experience = None
    /\ last_level = None
    /\ last_skills = <<>>
    /\ _debug_saved = FALSE
    /\ _eta_seconds = None
    /\ _eta_last_ts = mono
    /\ _eta_snapshot = None
    /\ _last_emit = 0
    /\ _last_analyze = 0
    /\ _last_selected_melee = ""
    /\ _distance_state = None
    /\ _shield_eta_seconds = None
    /\ _shield_snapshot = None
    /\ _shield_last_ts = mono
    /\ _last_shield_mode = 1
    /\ _stop_event = FALSE
    /\ pc = "loop"
    /\ now = 0
    /\ info = None
    /\ wait_until = 0
    /\ eta_line = None
    /\ eta_base = None
    /\ switched = FALSE
    /\ reenabled = FALSE
    /\ cleared = FALSE

\* time passes: while analyze_skills works on the screen, while the worker
\* sleeps in _stop_event.wait (the wait returns when its timeout is over);
\* the other lines of _run take no time, and the clock is followed while the
\* worker runs
Tick ==
    /\ mono < MaxMono
    /\ \/ pc = "analyze" /\ mono < now + MaxAnalysis
       \/ pc \in {"wait", "hidden"} /\ mono < wait_until
    /\ mono' = mono + 1
    /\ UNCHANGED <<overlayVars, readVars, etaVars, shieldVars, loopVars, _stop_event, statusVars>>
    /\ UNCHANGED <<trackerVars, threadVars, callVars, runnerVars, appVars>>

\* the user changes the selected skill: a click on the selector of the skills
\* pane, the options applied, or the options cancelled, which restores the
\* selection the pane had when they were opened
SelectMelee ==
    /\ clicks < MaxClicks
    /\ \E name \in SkillOptions \ {selected_melee} : selected_melee' = name
    /\ clicks' = clicks + 1
    /\ switched' = TRUE
    /\ UNCHANGED <<mono, selected_shield_mode, show_skills, readVars, etaVars, shieldVars,
                   loopVars, _stop_event, eta_line, eta_base, reenabled, cleared>>
    /\ UNCHANGED <<trackerVars, threadVars, callVars, runnerVars, appVars>>

\* the user picks the other shield mode ("1 mob", "2 mobs")
SelectShieldMode ==
    /\ clicks < MaxClicks
    /\ selected_shield_mode' = 3 - selected_shield_mode
    /\ clicks' = clicks + 1
    /\ UNCHANGED <<mono, selected_melee, show_skills, readVars, etaVars, shieldVars,
                   loopVars, _stop_event, statusVars>>
    /\ UNCHANGED <<trackerVars, threadVars, callVars, runnerVars, appVars>>

\* the user shows or hides the skills pane
ToggleShowSkills ==
    /\ clicks < MaxClicks
    /\ show_skills' = ~show_skills
    /\ clicks' = clicks + 1
    /\ reenabled' = ~show_skills
    /\ UNCHANGED <<mono, selected_melee, selected_shield_mode, readVars, etaVars, shieldVars,
                   loopVars, _stop_event, eta_line, eta_base, switched, cleared>>
    /\ UNCHANGED <<trackerVars, threadVars, callVars, runnerVars, appVars>>

\* the Reset button: reset_stats calls watcher._update_status() on the
\* overlay's thread
ResetStats ==
    /\ clicks < MaxClicks
    /\ clicks' = clicks + 1
    /\ _update_status(mono)
    /\ UNCHANGED <<mono, selected_melee, selected_shield_mode, show_skills, readVars,
                   loopVars, _stop_event>>
    /\ UNCHANGED <<trackerVars, threadVars, callVars, runnerVars, appVars>>

\* SkillsWatcher.stop
Stop ==
    /\ ~_stop_event
    /\ _stop_event' = TRUE
    /\ UNCHANGED <<mono, overlayVars, readVars, etaVars, shieldVars, loopVars, statusVars>>
    /\ UNCHANGED <<trackerVars, threadVars, callVars, runnerVars, appVars>>

\* where _run goes after the analysis, or without one
AfterAnalysis(t) == IF t - _last_emit >= emit_interval THEN "emit" ELSE "wait"

\* a loop that never tests the stop event
loop_forever == TRUE

\* line 753 of _run: while not self._stop_event.is_set()
loop_test == ~_stop_event

\* the loop test and lines 755-779 of _run
LoopTop ==
    /\ pc = "loop"
    /\ info' = None
    /\ IF ~loop_test
       THEN /\ pc' = "done"
            /\ UNCHANGED <<etaVars, shieldVars, _last_selected_melee, _last_shield_mode,
                           now, wait_until, cleared>>
       ELSE IF ~show_skills
       THEN /\ _eta_seconds' = None
            /\ _eta_snapshot' = None
            /\ _distance_state' = None
            /\ _shield_eta_seconds' = None
            /\ _shield_snapshot' = None
            /\ pc' = "hidden"
            /\ wait_until' = mono + tick_interval
            /\ cleared' = TRUE
            /\ UNCHANGED <<_eta_last_ts, _shield_last_ts, _last_selected_melee,
                           _last_shield_mode, now>>
       ELSE LET current_sel == Lower(selected_melee)
                shield_mode == selected_shield_mode
            IN  /\ IF current_sel # _last_selected_melee
                   THEN /\ _last_selected_melee' = current_sel
                        /\ _eta_seconds' = None
                        /\ _eta_snapshot' = None
                        /\ _distance_state' = None
                        /\ _eta_last_ts' = mono
                   ELSE UNCHANGED <<_last_selected_melee, etaVars>>
                /\ IF shield_mode # _last_shield_mode
                   THEN /\ _last_shield_mode' = shield_mode
                        /\ _shield_eta_seconds' = None
                        /\ _shield_snapshot' = None
                        /\ _shield_last_ts' = mono
                   ELSE UNCHANGED <<_last_shield_mode, shieldVars>>
                /\ now' = mono
                /\ pc' = IF mono - _last_analyze >= analyze_interval
                         THEN "analyze" ELSE AfterAnalysis(mono)
                /\ wait_until' = IF pc' = "wait" THEN mono + tick_interval ELSE wait_until
                /\ UNCHANGED cleared
    /\ UNCHANGED <<mono, overlayVars, readVars, _last_emit, _last_analyze, _stop_event,
                   eta_line, eta_base, switched, reenabled>>
    /\ UNCHANGED <<trackerVars, threadVars, callVars, runnerVars, appVars>>

\* lines 780-791 of _run: the analysis pass returns
Analyze ==
    /\ pc = "analyze"
    /\ \E r \in AnalysisResults :
        /\ info' = Some(r)
        /\ _debug_saved' = (_debug_saved \/ r.region # None)
        /\ last_region' = r.region
        /\ last_experience' = IF _is_valid_experience(r.experience)
                              THEN r.experience ELSE last_experience
        /\ last_level' = IF _is_valid_level(r.level) THEN r.level ELSE last_level
        /\ last_skills' = r.skills
    /\ _last_analyze' = now
    /\ _eta_last_ts' = now
    /\ pc' = AfterAnalysis(now)
    /\ wait_until' = IF pc' = "wait" THEN mono + tick_interval ELSE wait_until
    /\ UNCHANGED <<mono, overlayVars, _eta_seconds, _eta_snapshot, _distance_state, shieldVars,
                   _last_emit, _last_selected_melee, _last_shield_mode, now, _stop_event,
                   statusVars>>
    /\ UNCHANGED <<trackerVars, threadVars, callVars, runnerVars, appVars>>

\* an exception of the analysis pass that nothing catches ends the thread
AnalyzeRaises_uncaught ==
    /\ pc = "analyze"
    /\ pc' = "done"
    /\ info' = None
    /\ UNCHANGED <<mono, overlayVars, readVars, etaVars, shieldVars, _last_emit, _last_analyze,
                   _last_selected_melee, _last_shield_mode, now, wait_until, _stop_event,
                   statusVars>>
    /\ UNCHANGED <<trackerVars, threadVars, callVars, runnerVars, appVars>>

\* capture, matching or OCR raises inside analyze_skills: except, then finally
AnalyzeRaises ==
    /\ pc = "analyze"
    /\ pc' = "wait"
    /\ wait_until' = mono + tick_interval
    /\ info' = None
    /\ UNCHANGED <<mono, overlayVars, readVars, etaVars, shieldVars, _last_emit, _last_analyze,
                   _last_selected_melee, _last_shield_mode, now, _stop_event, statusVars>>
    /\ UNCHANGED <<trackerVars, threadVars, callVars, runnerVars, appVars>>

\* lines 793-795 of _run: the status emission
Emit ==
    /\ pc = "emit"
    /\ _update_status(mono)
    /\ _last_emit' = now
    /\ pc' = "wait"
    /\ wait_until' = mono + tick_interval
    /\ info' = None
    /\ UNCHANGED <<mono, overlayVars, readVars, _last_analyze, _last_selected_melee,
                   _last_shield_mode, now, _stop_event>>
    /\ UNCHANGED <<trackerVars, threadVars, callVars, runnerVars, appVars>>

\* overlay.set_status of line 616 raises inside _update_status, before any
\* ETA field is written: except of line 796, then finally
EmitRaises ==
    /\ pc = "emit"
    /\ pc' = "wait"
    /\ wait_until' = mono + tick_interval
    /\ info' = None
    /\ UNCHANGED <<mono, overlayVars, readVars, etaVars, shieldVars, _last_emit, _last_analyze,
                   _last_selected_melee, _last_shield_mode, now, _stop_event, statusVars>>
    /\ UNCHANGED <<trackerVars, threadVars, callVars, runnerVars, appVars>>

\* a hidden iteration that emits the status before its wait returns
HiddenWait_emitting ==
    /\ pc = "hidden"
    /\ mono >= wait_until \/ _stop_event
    /\ pc' = "wait"
    /\ wait_until' = mono + tick_interval
    /\ _update_status(mono)
    /\ UNCHANGED <<mono, overlayVars, readVars, _last_emit, _last_analyze,
                   _last_selected_melee, _last_shield_mode, now, info, _stop_event>>
    /\ UNCHANGED <<trackerVars, threadVars, callVars, runnerVars, appVars>>

\* _stop_event.wait(tick_interval) of line 761 returns; continue runs finally
HiddenWait ==
    /\ pc = "hidden"
    /\ mono >= wait_until \/ _stop_event
    /\ pc' = "wait"
    /\ wait_until' = mono + tick_interval
    /\ UNCHANGED <<mono, overlayVars, readVars, etaVars, shieldVars, _last_emit, _last_analyze,
                   _last_selected_melee, _last_shield_mode, now, info, _stop_event, statusVars>>
    /\ UNCHANGED <<trackerVars, threadVars, callVars, runnerVars, appVars>>

\* _stop_event.wait(tick_interval) of finally returns
Wait ==
    /\ pc = "wait"
    /\ mono >= wait_until \/ _stop_event
    /\ pc' = "loop"
    /\ UNCHANGED <<mono, overlayVars, readVars, etaVars, shieldVars, _last_emit, _last_analyze,
                   _last_selected_melee, _last_shield_mode, now, info, wait_until, _stop_event,
                   statusVars>>
    /\ UNCHANGED <<trackerVars, threadVars, callVars, runnerVars, appVars>>

(***************************************************************************)
(* The calls of the experience tracker.                                    *)
(***************************************************************************)
\* time passes between two calls of the tracker
WallAdvance ==
    /\ advances < MaxAdvances
    /\ \E d \in TimeSteps : wall' = wall + d
    /\ advances' = advances + 1
    /\ UNCHANGED <<baseline, history, call, ret, reset_exp, reset_at>>
    /\ UNCHANGED <<watcherVars, threadVars, callVars, runnerVars, appVars>>

\* the timestamps reset is given: none (time.time() is taken), the clock, as
\* update passes it, or a reading of the clock taken a minute before the call
ResetTimestamps == {None, Some(wall)} \cup (IF wall >= 60 THEN {Some(wall - 60)} ELSE {})

\* tracker.reset(exp) and tracker.reset(exp, timestamp=t)
TrackerReset ==
    \E exp \in {None} \cup {Some(e) : e \in ExpInputs}, timestamp \in ResetTimestamps :
        LET st == reset(Tracker, exp, timestamp, wall)
        IN  /\ baseline' = st.baseline
            /\ history' = st.history
            /\ call' = [op |-> "reset", exp |-> exp, timestamp |-> timestamp, now |-> wall]
            /\ ret' = None
            /\ reset_exp' = exp
            /\ reset_at' = IF exp = None THEN None
                           ELSE IF timestamp = None THEN Some(wall) ELSE timestamp
            /\ UNCHANGED <<wall, advances>>
    /\ UNCHANGED <<watcherVars, threadVars, callVars, runnerVars, appVars>>

\* tracker.update(exp)
TrackerUpdate ==
    /\ Len(history) < MaxHist
    /\ \E exp \in {None} \cup {Some(e) : e \in ExpInputs} :
        LET st == update(Tracker, exp, wall)
        IN  /\ baseline' = st.baseline
            /\ history' = st.history
            /\ call' = [op |-> "update", exp |-> exp, now |-> wall]
            /\ ret' = Some(st.ret)
            /\ reset_exp' = IF exp # None /\ baseline = None THEN exp ELSE reset_exp
            /\ reset_at' = IF exp # None /\ baseline = None THEN Some(wall) ELSE reset_at
            /\ UNCHANGED <<wall, advances>>
    /\ UNCHANGED <<watcherVars, threadVars, callVars, runnerVars, appVars>>

\* _delta_for_window(now, window_sec) evaluated on its own, some time after
\* the last update
TrackerDelta ==
    /\ \E w \in Windows :
        /\ call' = [op |-> "delta", window_sec |-> w, now |-> wall]
        /\ ret' = Some(_delta_for_window(history, wall, w))
    /\ UNCHANGED <<baseline, history, wall, advances, reset_exp, reset_at>>
    /\ UNCHANGED <<watcherVars, threadVars, callVars, runnerVars, appVars>>

NextTracker == WallAdvance \/ TrackerReset \/ TrackerUpdate \/ TrackerDelta

\* the thread of SkillsWatcher._run and the thread of the overlay's main loop
Threads == {"worker", "overlay"}

\* both threads are outside reset_stats and _update_status
InitThreads ==
    /\ thread_at = [th \in Threads |-> "idle"]
    /\ thread_exp = [th \in Threads |-> None]

\* the value of thread_at and of thread_exp after thread th moved to position at
At_(th, at) == [thread_at EXCEPT ![th] = at]

\* the clock advances between the calls; the calls themselves take no time
ClockBetweenCalls ==
    /\ \A th \in Threads : thread_at[th] = "idle"
    /\ WallAdvance

\* the Reset button: reset_stats starts on the overlay's thread and reads
\* watcher.last_experience (lines 134-138 of app.py)
ResetStatsEnter ==
    /\ thread_at["overlay"] = "idle"
    /\ Len(history) < MaxHist
    /\ \E exp \in {None} \cup {Some(e) : e \in ExpInputs} :
          thread_exp' = [thread_exp EXCEPT !["overlay"] = exp]
    /\ thread_at' = At_("overlay", "reset")
    /\ call' = [op |-> "reset_stats", thread |-> "overlay"]
    /\ UNCHANGED <<baseline, history, wall, advances, ret, reset_exp, reset_at>>
    /\ UNCHANGED <<watcherVars, callVars, runnerVars, appVars>>

\* self.baseline = exp, in tracker.reset of reset_stats or in the reset that
\* update makes when there is no baseline
ResetBaseline ==
    /\ \E th \in Threads :
        /\ thread_at[th] \in {"reset", "u_reset"}
        /\ baseline' = thread_exp[th]
        /\ thread_at' = At_(th, IF thread_at[th] = "reset" THEN "clear" ELSE "u_clear")
    /\ UNCHANGED <<history, wall, advances, call, ret, reset_exp, reset_at, thread_exp>>
    /\ UNCHANGED <<watcherVars, callVars, runnerVars, appVars>>

\* self.history.clear()
ResetClear ==
    /\ \E th \in Threads :
        /\ thread_at[th] \in {"clear", "u_clear"}
        /\ history' = <<>>
        /\ thread_at' = At_(th, IF thread_at[th] = "clear" THEN "append" ELSE "u_append")
    /\ UNCHANGED <<baseline, wall, advances, call, ret, reset_exp, reset_at, thread_exp>>
    /\ UNCHANGED <<watcherVars, callVars, runnerVars, appVars>>

\* the append of reset, when exp is not None; reset_stats goes on to
\* watcher._update_status(), update goes on to _prune
ResetAppend ==
    /\ \E th \in Threads :
        /\ thread_at[th] \in {"append", "u_append"}
        /\ history' = IF thread_exp[th] # None
                       THEN Append(history, ExpSnapshot(wall, thread_exp[th][1]))
                       ELSE history
        /\ thread_at' = At_(th, IF thread_at[th] = "append" THEN "status" ELSE "prune")
    /\ UNCHANGED <<baseline, wall, advances, call, ret, reset_exp, reset_at, thread_exp>>
    /\ UNCHANGED <<watcherVars, callVars, runnerVars, appVars>>

\* _update_status starts: on the worker's thread, called by _run with an
\* experience stored, or on the overlay's thread as the last call of
\* reset_stats; without an experience the tracker is not called (line 607)
StatusEnter ==
    /\ \/ /\ thread_at["worker"] = "idle"
          /\ Len(history) < MaxHist
          /\ \E e \in ExpInputs : thread_exp' = [thread_exp EXCEPT !["worker"] = Some(e)]
          /\ thread_at' = At_("worker", "update")
          /\ call' = [op |-> "_update_status", thread |-> "worker"]
       \/ /\ thread_at["overlay"] = "status"
          /\ thread_at' = At_("overlay", IF thread_exp["overlay"] # None
                                          THEN "update" ELSE "idle")
          /\ call' = [op |-> "_update_status", thread |-> "overlay"]
          /\ UNCHANGED thread_exp
    /\ UNCHANGED <<baseline, history, wall, advances, ret, reset_exp, reset_at>>
    /\ UNCHANGED <<watcherVars, callVars, runnerVars, appVars>>

\* lines 37-40 of update: the reset when there is no baseline, else the append
UpdateEntry ==
    /\ \E th \in Threads :
        /\ thread_at[th] = "update"
        /\ IF baseline = None
           THEN /\ thread_at' = At_(th, "u_reset")
                /\ UNCHANGED history
           ELSE /\ history' = Append(history, ExpSnapshot(wall, thread_exp[th][1]))
                /\ thread_at' = At_(th, "prune")
    /\ UNCHANGED <<baseline, wall, advances, call, ret, reset_exp, reset_at, thread_exp>>
    /\ UNCHANGED <<watcherVars, callVars, runnerVars, appVars>>

\* self._prune(now)
UpdatePrune ==
    /\ \E th \in Threads :
        /\ thread_at[th] = "prune"
        /\ history' = _prune(history, wall)
        /\ thread_at' = At_(th, "deltas")
    /\ UNCHANGED <<baseline, wall, advances, call, ret, reset_exp, reset_at, thread_exp>>
    /\ UNCHANGED <<watcherVars, callVars, runnerVars, appVars>>

\* the dict update returns, and the return of _update_status
UpdateDeltas ==
    /\ \E th \in Threads :
        /\ thread_at[th] = "deltas"
        /\ ret' = Some([m10 |-> _delta_for_window(history, wall, 10 * 60),
                        m60 |-> _delta_for_window(history, wall, 60 * 60),
                        m1 |-> _delta_for_window(history, wall, 1 * 60),
                        total |-> Some(thread_exp[th][1]
                                        - (IF baseline # None THEN baseline[1]
                                           ELSE thread_exp[th][1]))])
        /\ thread_at' = At_(th, "idle")
    /\ UNCHANGED <<baseline, history, wall, advances, call, reset_exp, reset_at, thread_exp>>
    /\ UNCHANGED <<watcherVars, callVars, runnerVars, appVars>>

NextThreads ==
    \/ ClockBetweenCalls
    \/ ResetStatsEnter \/ ResetBaseline \/ ResetClear \/ ResetAppend
    \/ StatusEnter \/ UpdateEntry \/ UpdatePrune \/ UpdateDeltas

\* no function has been called
InitCalls ==
    /\ called = "none"
    /\ call_arg = <<>>
    /\ call_out = <<>>

\* analyze_skills is called on a screen
CallAnalyzeSkills ==
    /\ called = "none"
    /\ \E scr \in Screens :
        /\ called' = "analyze_skills"
        /\ call_arg' = scr
        /\ call_out' = [info |-> analyze_skills(scr.anchor, scr.exp_tmpl, scr.exp_ocr,
                                                 scr.lvl_tmpl, scr.lvl_ocr, scr.panel),
                        ocr |-> ocr_calls(scr.anchor, scr.exp_tmpl, scr.lvl_tmpl)]
    /\ UNCHANGED <<trackerVars, watcherVars, threadVars, runnerVars, appVars>>

\* _normalize_region is called
CallNormalizeRegion ==
    /\ called = "none"
    /\ \E x \in Coords, y \in Coords, w \in Extents, h \in Extents,
          ww \in WindowSizes, wh \in WindowSizes :
        /\ called' = "_normalize_region"
        /\ call_arg' = [region |-> Region(x, y, w, h), window |-> [width |-> ww, height |-> wh]]
        /\ call_out' = Some(_normalize_region(Region(x, y, w, h), [width |-> ww, height |-> wh]))
    /\ UNCHANGED <<trackerVars, watcherVars, threadVars, runnerVars, appVars>>

\* analyze_skills chooses the region to crop: MANUAL_REGION set or not, the
\* header found or not
CallCropRegion ==
    /\ called = "none"
    /\ \E manual \in {None, Some(Region(100, 100, 220, 200))},
          anchor \in {None} \cup {Some(Region(x, y, 60, 12)) : x \in Coords \ {-5}, y \in Coords \ {-5}},
          ww \in WindowSizes, wh \in WindowSizes :
        /\ called' = "crop_region"
        /\ call_arg' = [manual_region |-> manual, anchor |-> anchor,
                        window |-> [width |-> ww, height |-> wh]]
        /\ call_out' = crop_region(manual, anchor, [width |-> ww, height |-> wh])
    /\ UNCHANGED <<trackerVars, watcherVars, threadVars, runnerVars, appVars>>

\* _normalize_skill_value is called
CallNormalizeSkillValue ==
    /\ called = "none"
    /\ \E raw \in RawValues :
        /\ called' = "_normalize_skill_value"
        /\ call_arg' = raw
        /\ call_out' = _normalize_skill_value(raw)
    /\ UNCHANGED <<trackerVars, watcherVars, threadVars, runnerVars, appVars>>

\* readings of the level box: none, the empty text and every text of
\* RawAlphabet up to MaxRawLen characters
LevelReadings ==
    {None, Some(<<>>)}
    \cup {Some(r) : r \in UNION {[1..n -> RawAlphabet] : n \in 1..MaxRawLen}}

\* _is_valid_level is called
CallIsValidLevel ==
    /\ called = "none"
    /\ \E val \in LevelReadings :
        /\ called' = "_is_valid_level"
        /\ call_arg' = val
        /\ call_out' = _is_valid_level(val)
    /\ UNCHANGED <<trackerVars, watcherVars, threadVars, runnerVars, appVars>>

\* find_number_box is called
CallFindNumberBox ==
    /\ called = "none"
    /\ \E img \in SmallImages \cup SpacedImages \cup {CrowdedImage},
          expected \in ExpectedStrings :
        /\ called' = "find_number_box"
        /\ call_arg' = [img |-> img, expected |-> expected]
        /\ call_out' = find_number_box(img, expected)
    /\ UNCHANGED <<trackerVars, watcherVars, threadVars, runnerVars, appVars>>

NextCalls ==
    \/ CallAnalyzeSkills \/ CallNormalizeRegion \/ CallCropRegion \/ CallNormalizeSkillValue
    \/ CallIsValidLevel \/ CallFindNumberBox

(***************************************************************************)
(* CustomActionsRunner                                                     *)
(***************************************************************************)
MaxRunnerTime == 3
MaxIterations == 3

\* self.actions as load() leaves it: two configurations, the second started
\* by the key that ends the first and ended by the key that starts it
Actions ==
    <<[name |-> "a", action1 |-> "F1", action2 |-> "F2", count |-> 2],
      [name |-> "b", action1 |-> "F2", action2 |-> "F1", count |-> 0]>>

\* the keys _poll_inputs can name, in the order it visits them
Keys == <<"F1", "F2">>

\* the elements of a sequence
Range(seq) == {seq[i] : i \in DOMAIN seq}

\* _poll_inputs with the keys held_keys held: the keys not held at the last
\* poll are the presses, and _down becomes the keys held
_poll_inputs(held_keys, down) ==
    [names |-> SelectSeq(Keys, LAMBDA k : k \in held_keys /\ k \notin down),
     down |-> held_keys]

\* lines 122-124 for one name: a pending entry per configuration it starts
Action1Of(name) ==
    SelectSeq(<<1, 2>>, LAMBDA c : Actions[c].action1 = name)

\* lines 121-124: detection of action1 over the names pressed
RECURSIVE DetectAction1(_, _)
DetectAction1(pend, names) ==
    IF names = <<>> THEN pend
    ELSE DetectAction1(pend \o Action1Of(Head(names)), Tail(names))

\* a selection of the entries to activate that does not look at self.pending
to_activate_unpaired(pend, name) ==
    SelectSeq(<<1, 2>>, LAMBDA c : Actions[c].action2 = name)

\* line 127: [p for p in self.pending if p.cfg.action2 == name]
to_activate(pend, name) ==
    SelectSeq(pend, LAMBDA c : Actions[c].action2 = name)

\* list.remove: the first element equal to x is taken out
RECURSIVE RemoveFirst(_, _)
RemoveFirst(seq, x) ==
    IF seq = <<>> THEN <<>>
    ELSE IF Head(seq) = x THEN Tail(seq)
    ELSE <<Head(seq)>> \o RemoveFirst(Tail(seq), x)

\* lines 130-141 for the entries todo: each leaves self.pending, takes the
\* next occurrence number and is appended to self.active
RECURSIVE ActivateAll(_, _, _)
ActivateAll(st, todo, t) ==
    IF todo = <<>> THEN st
    ELSE ActivateAll([pending |-> RemoveFirst(st.pending, Head(todo)),
                      counter |-> st.counter + 1,
                      appended |-> Append(st.appended,
                                          [cfg |-> Head(todo),
                                           start |-> t,
                                           end |-> t + Max(1, Actions[Head(todo)].count),
                                           occurrence |-> st.counter + 1])],
                     Tail(todo), t)

\* lines 126-141: detection of action2 over the names pressed
RECURSIVE DetectAction2(_, _, _)
DetectAction2(st, names, t) ==
    IF names = <<>> THEN st
    ELSE DetectAction2(ActivateAll(st, to_activate(st.pending, Head(names)), t),
                       Tail(names), t)

\* how many entries of seq are x
CountIn(seq, x) == Cardinality({i \in DOMAIN seq : seq[i] = x})

\* how many countdowns of seq are of the configuration c
CountCfg(seq, c) == Cardinality({i \in DOMAIN seq : seq[i].cfg = c})

\* the state after CustomActionsRunner.__init__ and start()
InitRunner ==
    /\ rnow = 0
    /\ iterations = 0
    /\ pending = <<>>
    /\ active = <<>>
    /\ _down = {}
    /\ _occurrence_counter = 0
    /\ _latest_lines = <<>>
    /\ pressed = <<>>
    /\ tick_now = 0
    /\ runner_pc = "tick"
    /\ status_pc = "idle"
    /\ status_kept = <<>>
    /\ presses1 = [c \in {1, 2} |-> 0]
    /\ started = [c \in {1, 2} |-> 0]
    /\ countdowns = {}

\* time passes
RunnerClock ==
    /\ rnow < MaxRunnerTime
    /\ rnow' = rnow + 1
    /\ UNCHANGED <<iterations, pending, active, _down, _occurrence_counter, _latest_lines,
                   pressed, tick_now, runner_pc, status_pc, status_kept, presses1,
                   started, countdowns>>
    /\ UNCHANGED <<trackerVars, watcherVars, threadVars, callVars, appVars>>

\* tick, lines 107-117: another window is in the foreground
TickSkip ==
    /\ runner_pc = "tick"
    /\ iterations < MaxIterations
    /\ iterations' = iterations + 1
    /\ runner_pc' = "emit"
    /\ UNCHANGED <<rnow, pending, active, _down, _occurrence_counter, _latest_lines,
                   pressed, tick_now, status_pc, status_kept, presses1, started,
                   countdowns>>
    /\ UNCHANGED <<trackerVars, watcherVars, threadVars, callVars, appVars>>

\* tick, lines 118-141, with the outcome st of the two detections
TickStore(polled, st) ==
    /\ pressed' = polled.names
    /\ _down' = polled.down
    /\ pending' = st.pending
    /\ _occurrence_counter' = st.counter
    /\ active' = active \o st.appended
    /\ countdowns' = countdowns \cup Range(st.appended)
    /\ started' = [c \in {1, 2} |-> started[c] + CountCfg(st.appended, c)]
    /\ presses1' = [c \in {1, 2} |->
                      presses1[c] + CountIn(polled.names, Actions[c].action1)]

\* tick, lines 118-141: the inputs are polled and the sequences detected
TickPoll ==
    /\ runner_pc = "tick"
    /\ iterations < MaxIterations
    /\ iterations' = iterations + 1
    /\ \E held_keys \in SUBSET Range(Keys) :
        TickStore(_poll_inputs(held_keys, _down),
                  DetectAction2([pending |-> DetectAction1(pending,
                                      _poll_inputs(held_keys, _down).names),
                                 counter |-> _occurrence_counter,
                                 appended |-> <<>>],
                                _poll_inputs(held_keys, _down).names, rnow))
    /\ tick_now' = rnow
    /\ runner_pc' = "prune"
    /\ UNCHANGED <<rnow, _latest_lines, status_pc, status_kept>>
    /\ UNCHANGED <<trackerVars, watcherVars, threadVars, callVars, appVars>>

\* tick, line 143: the countdowns that have ended are dropped
TickPrune ==
    /\ runner_pc = "prune"
    /\ active' = SelectSeq(active, LAMBDA a : tick_now < a.end)
    /\ runner_pc' = "emit"
    /\ UNCHANGED <<rnow, iterations, pending, _down, _occurrence_counter, _latest_lines,
                   pressed, tick_now, status_pc, status_kept, presses1, started,
                   countdowns>>
    /\ UNCHANGED <<trackerVars, watcherVars, threadVars, callVars, appVars>>

\* _loop, lines 100-104: _emit_lines calls get_status_lines on the runner's
\* thread (emit_interval is poll_interval, which the loop has slept)
LoopEmit ==
    /\ runner_pc = "emit"
    /\ active' = SelectSeq(active, LAMBDA a : a.end > rnow)
    /\ _latest_lines' = [i \in DOMAIN active' |-> active'[i].occurrence]
    /\ runner_pc' = "tick"
    /\ UNCHANGED <<rnow, iterations, pending, _down, _occurrence_counter, pressed,
                   tick_now, status_pc, status_kept, presses1, started, countdowns>>
    /\ UNCHANGED <<trackerVars, watcherVars, threadVars, callVars, appVars>>

\* get_status_lines on the watcher's thread, line 149 up to the store: the
\* list of the countdowns still running is built from self.active
StatusRead ==
    /\ status_pc = "idle"
    /\ status_kept' = SelectSeq(active, LAMBDA a : a.end > rnow)
    /\ status_pc' = "store"
    /\ UNCHANGED <<rnow, iterations, pending, active, _down, _occurrence_counter,
                   _latest_lines, pressed, tick_now, runner_pc, presses1, started,
                   countdowns>>
    /\ UNCHANGED <<trackerVars, watcherVars, threadVars, callVars, appVars>>

\* get_status_lines on the watcher's thread, the store of line 149 and lines
\* 150-154: the list built becomes self.active and its lines are returned
StatusStore ==
    /\ status_pc = "store"
    /\ active' = status_kept
    /\ status_pc' = "idle"
    /\ UNCHANGED <<rnow, iterations, pending, _down, _occurrence_counter, _latest_lines,
                   pressed, tick_now, runner_pc, status_kept, presses1, started,
                   countdowns>>
    /\ UNCHANGED <<trackerVars, watcherVars, threadVars, callVars, appVars>>

NextRunner ==
    \/ RunnerClock
    \/ TickSkip
    \/ TickPoll
    \/ TickPrune
    \/ LoopEmit
    \/ StatusRead
    \/ StatusStore

(***************************************************************************)
(* run_bot: the processes of the bot started on one machine                *)
(***************************************************************************)
\* the pids of the processes that call run_bot, once each
Instances == {1, 2, 3}

\* the positions at which a process exists
Alive == {"checked", "locked", "found", "running"}

\* _acquire_process_mutex of process i with the processes handles holding the
\* named mutex; fails tells that the import or CreateMutex raises, which
\* lines 83-85 turn into True
_acquire_process_mutex(handles, i, fails) ==
    IF fails THEN [acquired |-> TRUE, handles |-> handles]
    ELSE IF handles # {} THEN [acquired |-> FALSE, handles |-> handles]
    ELSE [acquired |-> TRUE, handles |-> handles \cup {i}]

\* the handlers registered with atexit run: the handle of the mutex is closed
\* and LOCK_FILE is unlinked
AtExit(i) ==
    /\ mutex_handles' = mutex_handles \ {i}
    /\ lock_file' = IF app_pc[i] \in {"locked", "found", "running"} THEN None ELSE lock_file

\* no process has been started
InitApp ==
    /\ app_pc = [i \in Instances |-> "idle"]
    /\ mutex_handles = {}
    /\ lock_file = None
    /\ made = {}

\* run_bot, lines 102-104: the mutex is asked for, and sys.exit(0) without it
RunBotMutex ==
    /\ \E i \in Instances, fails \in BOOLEAN :
        /\ app_pc[i] = "idle"
        /\ mutex_handles' = _acquire_process_mutex(mutex_handles, i, fails).handles
        /\ app_pc' = [app_pc EXCEPT ![i] =
                        IF _acquire_process_mutex(mutex_handles, i, fails).acquired
                        THEN "checked" ELSE "exit0"]
    /\ UNCHANGED <<lock_file, made>>
    /\ UNCHANGED <<trackerVars, watcherVars, threadVars, callVars, runnerVars>>

\* _ensure_single_instance: the process recorded in LOCK_FILE, if it is
\* another one that still runs, is terminated (the system then closes its
\* handles) or, with AccessDenied or TimeoutExpired, left running; then the
\* own pid is written
EnsureSingleInstance ==
    /\ \E i \in Instances, terminated \in BOOLEAN :
        /\ app_pc[i] = "checked"
        /\ IF lock_file # None /\ lock_file # Some(i) /\ app_pc[lock_file[1]] \in Alive
              /\ terminated
           THEN /\ app_pc' = [app_pc EXCEPT ![i] = "locked", ![lock_file[1]] = "killed"]
                /\ mutex_handles' = mutex_handles \ {lock_file[1]}
           ELSE /\ app_pc' = [app_pc EXCEPT ![i] = "locked"]
                /\ UNCHANGED mutex_handles
        /\ lock_file' = Some(i)
    /\ UNCHANGED made
    /\ UNCHANGED <<trackerVars, watcherVars, threadVars, callVars, runnerVars>>

\* run_bot, lines 108-111: the window of the game is looked for, and
\* sys.exit(1) without it
FindWindow ==
    /\ \E i \in Instances, window_found \in BOOLEAN :
        /\ app_pc[i] = "locked"
        /\ IF window_found
           THEN /\ app_pc' = [app_pc EXCEPT ![i] = "found"]
                /\ UNCHANGED <<mutex_handles, lock_file>>
           ELSE /\ app_pc' = [app_pc EXCEPT ![i] = "exit1"]
                /\ AtExit(i)
    /\ UNCHANGED made
    /\ UNCHANGED <<trackerVars, watcherVars, threadVars, callVars, runnerVars>>

\* run_bot, lines 115-121: overlay, tracker, actions runner and watcher
Construct ==
    /\ \E i \in Instances :
        /\ app_pc[i] = "found"
        /\ app_pc' = [app_pc EXCEPT ![i] = "running"]
        /\ made' = made \cup {i}
    /\ UNCHANGED <<mutex_handles, lock_file>>
    /\ UNCHANGED <<trackerVars, watcherVars, threadVars, callVars, runnerVars>>

\* the overlay is closed and the process ends
Quit ==
    /\ \E i \in Instances :
        /\ app_pc[i] = "running"
        /\ app_pc' = [app_pc EXCEPT ![i] = "done"]
        /\ AtExit(i)
    /\ UNCHANGED made
    /\ UNCHANGED <<trackerVars, watcherVars, threadVars, callVars, runnerVars>>

NextApp ==
    \/ RunBotMutex
    \/ EnsureSingleInstance
    \/ FindWindow
    \/ Construct
    \/ Quit

vars == <<trackerVars, watcherVars, threadVars, callVars, runnerVars, appVars>>

Init == InitTracker /\ InitWatcher /\ InitThreads /\ InitCalls /\ InitRunner /\ InitApp

Next ==
    \/ Tick
    \/ SelectMelee \/ SelectShieldMode \/ ToggleShowSkills \/ ResetStats \/ Stop
    \/ LoopTop \/ Analyze \/ AnalyzeRaises \/ Emit \/ HiddenWait \/ Wait

\* the skills watcher, its overlay and the clock
Spec == Init /\ [][Next]_vars

\* a step of the worker thread, the failures of its calls included
WorkerStep ==
    AnalyzeRaises \/ EmitRaises \/ HiddenWait \/ Wait \/ LoopTop \/ Analyze \/ Emit

\* the worker loop with its failures, the clock, the pane shown or hidden,
\* and stop()
NextWorker ==
    \/ Tick
    \/ ToggleShowSkills \/ Stop
    \/ LoopTop \/ Analyze \/ AnalyzeRaises \/ Emit \/ EmitRaises \/ HiddenWait \/ Wait

SpecWorker == Init /\ [][NextWorker]_vars

\* the worker is a daemon thread started by start(): the scheduler keeps it
\* running, so it takes its next step whenever it can
SpecLive == SpecWorker /\ WF_vars(WorkerStep)

\* the experience tracker and its callers
SpecTracker == Init /\ [][NextTracker]_vars

\* the functions of skills.py called on their own, one call in a behaviour
SpecCalls == Init /\ [][NextCalls]_vars

\* the tracker as the worker and the handler of the Reset button call it,
\* statement by statement
SpecThreads == Init /\ [][NextThreads]_vars

\* the runner's thread and the watcher's calls of get_status_lines
SpecRunner == Init /\ [][NextRunner]_vars

\* the processes of the bot on one machine
SpecApp == Init /\ [][NextApp]_vars

(***************************************************************************)
(* Properties of SkillsWatcher                                             *)
(***************************************************************************)
\* C1: while the measured tuple of the selected melee skill stays unchanged,
\* the remaining time of every published melee ETA line equals
\* max(0, R0 - (t - T)), where t is the time of the line and R0 and T are the
\* remaining time and the time of the last re-baseline.
C1_EtaIsBaselineMinusElapsed ==
    (eta_line # None /\ eta_base # None) =>
        eta_line[1].remaining =
            Max(0, eta_base[1].remaining - (eta_line[1].at - eta_base[1].at))

\* C2: the first melee ETA line published after the user has changed the
\* selected skill is a fresh baseline: it is the re-baseline of its tick.
C2_FreshBaselineAfterSwitch ==
    (eta_line # None /\ eta_line[1].after_switch) =>
        /\ eta_base # None
        /\ eta_base[1].at = eta_line[1].at
        /\ eta_base[1].remaining = eta_line[1].remaining

\* C3: the melee ETA, the bounds of the distance ETA, the stone counts and
\* the shielding ETA are each unset or at least zero.
C3_EtaNeverNegative ==
    /\ _eta_seconds # None => _eta_seconds[1] >= 0
    /\ _distance_state # None =>
        /\ _distance_state[1].sec_min >= 0
        /\ _distance_state[1].sec_max >= 0
        /\ _distance_state[1].stones_min >= 0
        /\ _distance_state[1].stones_max >= 0
    /\ _shield_eta_seconds # None => _shield_eta_seconds[1] >= 0

\* the shielding ETA of a skill at 50 percent has run down to zero, and the
\* melee ETA of a skill read at 150 percent stands at zero
C3_Witness ==
    /\ _shield_eta_seconds = Some(0)
    /\ _shield_snapshot # None
    /\ _shield_snapshot[2] = Some(50)
    /\ _eta_seconds = Some(0)
    /\ _eta_snapshot # None
    /\ _eta_snapshot[3] = Some(150)

\* C9: an analysis pass that finds no panel region leaves the stored
\* experience, the stored level and the stored skill values as they were.
C9_NoRegionKeepsStoredValues ==
    [][(Analyze /\ info' # None /\ info'[1].region = None) =>
           /\ last_experience' = last_experience
           /\ last_level' = last_level
           /\ last_skills' = last_skills]_vars

\* [0-9][0-9,\.]* over the whole text
ExperienceText(v) ==
    /\ v # <<>>
    /\ v[1] \in Digits
    /\ \A i \in DOMAIN v : v[i] \in Digits \cup {",", "."}

\* a reading of the experience box that is missing or is no experience text
BadExperience(r) == r.experience = None \/ ~ExperienceText(r.experience[1])

\* a reading of the level box that is missing or is no level text
BadLevel(r) == ~_is_valid_level(r.level)

\* C10: last_experience and last_level are each unset or valid, and an
\* analysis pass whose read of a field is missing or invalid leaves the
\* stored field as it was.
C10_StoredFieldsValid ==
    /\ [](/\ last_experience # None => ExperienceText(last_experience[1])
          /\ last_level # None => _is_valid_level(last_level))
    /\ [][(Analyze /\ info' # None /\ BadExperience(info'[1])) =>
              last_experience' = last_experience]_vars
    /\ [][(Analyze /\ info' # None /\ BadLevel(info'[1])) =>
              last_level' = last_level]_vars

\* a pass has read an experience that is present and invalid and a level
\* that is invalid, after both fields were stored
C10_Witness ==
    /\ info # None
    /\ info[1].experience # None
    /\ BadExperience(info[1])
    /\ BadLevel(info[1])
    /\ last_experience # None
    /\ last_level # None

\* C12: the worker loop ends only at its loop test with the stop event set;
\* an iteration that leaves the analysis or the emission for the wait of
\* finally, as a failing one does, waits one tick, and the wait is followed by
\* the next loop test.
C12_FailureKeepsLoopRunning ==
    [][ /\ (pc' = "done" /\ pc # "done") => (pc = "loop" /\ _stop_event)
        /\ (pc \in {"analyze", "emit"} /\ pc' # pc)
              => pc' \in {"emit", "wait"}
        /\ (pc \in {"analyze", "emit"} /\ pc' = "wait")
              => wait_until' = mono + tick_interval
        /\ (pc = "wait" /\ pc' # pc)
              => (pc' = "loop" /\ (mono >= wait_until \/ _stop_event)) ]_vars

\* an analysis pass is under way again after the pass of an earlier
\* iteration failed: the pane was never hidden and the last successful pass
\* is older than the analysis interval
C12_Witness ==
    /\ clicks = 0
    /\ ~_stop_event
    /\ pc = "analyze"
    /\ now > _last_analyze + analyze_interval

\* C13: an iteration in which the emission is due (at least emit_interval
\* since the last emission, pane shown) does not reach the wait of finally
\* without the emission, whether its analysis pass returned, raised or was
\* not due.
C13_EmissionIndependentOfAnalysis ==
    [][ (pc \in {"loop", "analyze"} /\ pc' = "wait")
            => now' - _last_emit < emit_interval ]_vars

\* C14: once the stop event is set the loop test ends the loop, so that no
\* iteration starts; setting the event leaves the iteration in flight where
\* it is; after the loop ended the worker analyses and emits nothing; and the
\* loop does end.
C14_StopEndsLoop ==
    /\ [][ /\ (_stop_event /\ pc = "loop" /\ pc' # pc) => pc' = "done"
           /\ (~_stop_event /\ _stop_event') => UNCHANGED <<loopVars, readVars>>
           /\ pc = "done" => UNCHANGED <<loopVars, readVars>> ]_vars
    /\ (_stop_event ~> pc = "done")

\* the stop event was set during an analysis pass, the pass was completed and
\* stored, and the loop has ended
C14_Witness ==
    /\ pc = "done"
    /\ _stop_event
    /\ _last_analyze = now
    /\ last_skills # <<>>

\* C15: while the worker is inside _update_status, no other thread is inside
\* reset_stats (tracker.reset followed by _update_status): the tracker's
\* baseline and history are touched by one thread at a time.
C15_TrackerUsedByWorkerOnly ==
    ~(thread_at["worker"] # "idle" /\ thread_at["overlay"] # "idle")

\* C16 as stated: a pass in which the template reads of experience and level
\* are both valid makes no call of the OCR engine.
C16_NoOcrWhenTemplatesValid ==
    (/\ called = "analyze_skills"
     /\ _is_valid_experience(call_arg.exp_tmpl)
     /\ _is_valid_level(call_arg.lvl_tmpl))
        => call_out.ocr = {}

\* C16: in a pass that found the panel the OCR engine reads the experience
\* box exactly when the template read of the experience is invalid, the level
\* box exactly when the template read of the level is invalid, and the whole
\* panel, for the skill rows, in every case; a pass without a panel makes no
\* OCR call.
C16_OcrOfBoxesOnlyAsFallback ==
    called = "analyze_skills" =>
        /\ "experience" \in call_out.ocr
              <=> (call_arg.anchor /\ ~_is_valid_experience(call_arg.exp_tmpl))
        /\ "level" \in call_out.ocr
              <=> (call_arg.anchor /\ ~_is_valid_level(call_arg.lvl_tmpl))
        /\ "panel" \in call_out.ocr <=> call_arg.anchor

\* a pass with both template reads valid has called the OCR engine for the
\* panel only
C16_Witness ==
    /\ called = "analyze_skills"
    /\ call_arg.anchor
    /\ _is_valid_experience(call_arg.exp_tmpl)
    /\ _is_valid_level(call_arg.lvl_tmpl)
    /\ call_out.ocr = {"panel"}

\* r lies inside a window of size w
InsideWindow(r, w) ==
    /\ 0 <= r.x
    /\ 0 <= r.y
    /\ r.x + r.width <= w.width
    /\ r.y + r.height <= w.height

\* C19: the region _normalize_region returns for a candidate of non-negative
\* width and height lies inside the window, and so does the region
\* analyze_skills crops with, from the manual override or the header match.
C19_RegionInsideWindow ==
    /\ called = "_normalize_region" => InsideWindow(call_out[1], call_arg.window)
    /\ (called = "crop_region" /\ call_out # None)
          => InsideWindow(call_out[1], call_arg.window)

\* a candidate wider than the window and left of it has been clipped
C19_Witness ==
    /\ called = "_normalize_region"
    /\ call_arg.region.x < 0
    /\ call_arg.region.width > call_arg.window.width
    /\ call_arg.window.width > 0
    /\ call_out[1].x = 0
    /\ call_out[1].width = call_arg.window.width

\* the leading digit run of raw
LeadingDigits(raw) == Slice(raw, 1, RunEnd(raw, 1, Digits))

\* where the first "(" that a digit follows stands in raw, 0 without one
ParenDigitsAt(raw) ==
    FirstOf({k \in DOMAIN raw : raw[k] = "(" /\ k < Len(raw) /\ raw[k + 1] \in Digits})

\* raw starts with a digit and has no blank right after a "("
NoisySkillValue(raw) ==
    /\ raw # <<>>
    /\ raw[1] \in Digits
    /\ \A k \in DOMAIN raw : raw[k] = "(" => ~At(raw, k + 1, " ")

StatusTick ==
    \/ pc = "emit" /\ pc' = "wait"
    \/ clicks' # clicks /\ UNCHANGED <<selected_melee, selected_shield_mode, show_skills>>

\* the part of the level left at percent pct of seconds sec, with the part
\* left kept at zero or above (clamped) or taken as it comes
PartLeft(sec, pct, clamped) ==
    IF pct = None THEN sec
    ELSE IF clamped THEN (sec * Max(0, 100 - pct[1])) \div 100
    ELSE (sec * (100 - pct[1])) \div 100

\* the selected skill is a melee skill with a value read whose level has an
\* entry in the table of seconds
MeleeMeasured(key, lvl) ==
    /\ key \in MeleeKeys
    /\ key \in DOMAIN last_skills
    /\ last_skills[key] # <<>>
    /\ lvl # None
    /\ lvl[1] \in DOMAIN MeleeSeconds

\* what a status tick does to the melee ETA for the measured (key, lvl, pct)
MeleeTick(key, lvl, pct, clamped) ==
    IF _eta_snapshot # <<key, lvl, pct>> \/ _eta_seconds = None
    THEN /\ _eta_seconds' = Some(PartLeft(MeleeSeconds[lvl[1]], pct, clamped))
         /\ _eta_snapshot' = <<key, lvl, pct>>
         /\ _eta_last_ts' = mono
    ELSE _eta_snapshot' = _eta_snapshot

MeleeTickOf(key, parsed, clamped) ==
    MeleeMeasured(key, parsed[1]) => MeleeTick(key, parsed[1], parsed[2], clamped)

MeleeTickOfSelected(key, clamped) ==
    MeleeTickOf(key, IF key \in DOMAIN last_skills
                     THEN _parse_skill_value(last_skills[key]) ELSE <<None, None>>,
                clamped)

\* C17 as stated: on a status tick for a melee skill whose tuple differs from
\* the stored one, or without a stored ETA, remaining becomes
\* seconds_to_next * (100 - percent) / 100, the full seconds_to_next without
\* a percent, and the tuple is recorded; with an equal tuple the stored tuple
\* stays.
C17_MeleeRebaseline ==
    [][StatusTick => MeleeTickOfSelected(Lower(selected_melee), FALSE)]_vars

\* C17: on a status tick for a melee skill whose level has an entry in the
\* table and whose tuple differs from the stored one, or without a stored
\* ETA, remaining becomes seconds_to_next * max(0, 100 - percent) / 100, the
\* full seconds_to_next without a percent, and the tuple and the time are
\* recorded; with an equal tuple the stored tuple stays.
C17_MeleeRebaselineClamped ==
    [][StatusTick => MeleeTickOfSelected(Lower(selected_melee), TRUE)]_vars

\* the sword skill read at 150 percent has just been given its baseline, zero
C17_Witness ==
    /\ _eta_snapshot = <<"sword", Some(1), Some(150)>>
    /\ _eta_seconds = Some(0)
    /\ _eta_last_ts = mono
    /\ eta_base # None
    /\ eta_base[1].at = mono

\* shielding has a value read whose level has an entry in the table
ShieldMeasured(lvl) ==
    /\ "shielding" \in DOMAIN last_skills
    /\ last_skills["shielding"] # <<>>
    /\ lvl # None
    /\ lvl[1] \in DOMAIN MeleeSeconds

\* what a status tick does to the shielding ETA for the measured (lvl, pct)
\* in the mode selected
ShieldTick(lvl, pct, mode, clamped) ==
    IF _shield_snapshot # <<lvl, pct, mode>> \/ _shield_eta_seconds = None
    THEN /\ _shield_eta_seconds' =
              Some(PartLeft(IF mode = 2 THEN MeleeSeconds[lvl[1]] \div 2
                            ELSE MeleeSeconds[lvl[1]], pct, clamped))
         /\ _shield_snapshot' = <<lvl, pct, mode>>
         /\ _shield_last_ts' = mono
    ELSE /\ _shield_eta_seconds' =
              Some(Max(0, _shield_eta_seconds[1] - Max(0, mono - _shield_last_ts)))
         /\ _shield_snapshot' = _shield_snapshot
         /\ _shield_last_ts' = mono

ShieldTickOf(parsed, clamped) ==
    ShieldMeasured(parsed[1]) => ShieldTick(parsed[1], parsed[2], selected_shield_mode, clamped)

ShieldTickOfPanel(clamped) ==
    ShieldTickOf(IF "shielding" \in DOMAIN last_skills
                 THEN _parse_skill_value(last_skills["shielding"]) ELSE <<None, None>>,
                 clamped)

\* C18 as stated: on a status tick the shielding ETA is given the baseline
\* S * (100 - percent) / 100, S halved in mode 2, exactly when
\* (level, percent, mode) differs from the stored tuple or no ETA is stored,
\* and otherwise decays by the elapsed time.
C18_ShieldRebaseline ==
    [][StatusTick => ShieldTickOfPanel(FALSE)]_vars

\* C18: on a status tick for a shielding level that has an entry in the
\* table, the shielding ETA is given the baseline
\* S * max(0, 100 - percent) / 100 (S without a percent), S halved in mode 2,
\* exactly when (level, percent, mode) differs from the stored tuple or no
\* ETA is stored, and otherwise decays by the elapsed time, not below zero.
C18_ShieldRebaselineClamped ==
    [][StatusTick => ShieldTickOfPanel(TRUE)]_vars

\* shielding read at 150 percent has just been given its baseline, zero, in
\* the two-mobs mode
C18_Witness ==
    /\ _shield_snapshot = <<Some(2), Some(150), 2>>
    /\ _shield_eta_seconds = Some(0)
    /\ _shield_last_ts = mono

\* the index after the blanks at i when blanks are allowed, else i
SkipBlanks(v, i, blanks) == IF blanks THEN RunEnd(v, i, Spaces) ELSE i

\* the index after an optional percent sign at i
SkipPercent(v, i) == IF At(v, i, "%") THEN i + 1 ELSE i

\* v from the index i on is ( digits %? ) and nothing more, with blanks
\* around the parts when blanks are allowed
ParenTail(v, i, blanks) ==
    /\ At(v, i, "(")
    /\ RunEnd(v, SkipBlanks(v, i + 1, blanks), Digits) > SkipBlanks(v, i + 1, blanks)
    /\ At(v, SkipBlanks(v, SkipPercent(v, RunEnd(v, SkipBlanks(v, i + 1, blanks), Digits)),
                        blanks), ")")
    /\ SkipBlanks(v, SkipPercent(v, RunEnd(v, SkipBlanks(v, i + 1, blanks), Digits)), blanks)
          = Len(v)

\* v matches \d+(\(\d+%?\))? as a whole, or, with blanks allowed,
\* \d+(\s*\(\s*\d+%?\s*\))?
LevelText(v, blanks) ==
    /\ RunEnd(v, 1, Digits) > 1
    /\ \/ RunEnd(v, 1, Digits) = Len(v) + 1
       \/ ParenTail(v, SkipBlanks(v, RunEnd(v, 1, Digits), blanks), blanks)

\* C21 as stated: _is_valid_level is false for every text that does not
\* match \d+(\(\d+%?\))?, and for a missing reading.
C21_InvalidOutsideStrictPattern ==
    (called = "_is_valid_level" /\ (call_arg = None \/ ~LevelText(call_arg[1], FALSE)))
        => call_out = FALSE

\* C21: _is_valid_level is false for a missing reading and for every text
\* that does not match \d+(\s*\(\s*\d+%?\s*\))?, the pattern with blanks
\* allowed before the parenthesis and inside it; it is true for the texts
\* that match.
C21_InvalidOutsidePattern ==
    called = "_is_valid_level" =>
        call_out = (call_arg # None /\ LevelText(call_arg[1], TRUE))

\* a level text whose parenthesis is not closed has been found invalid
C21_Witness ==
    /\ called = "_is_valid_level"
    /\ call_arg = Some(<<"1", "(", "2", "%">>)
    /\ call_out = FALSE

\* pos gives the positions of the glyphs of e in img, the first at x, each
\* later one the best match of the positions -2 to +5 px from the right edge
\* of the glyph before it (the leftmost of equally good ones), with a score
\* of at least 0.55
IsChain(img, e, x, pos) ==
    /\ pos[1] = x
    /\ \A k \in 2..Len(e) :
        /\ e[k] \in DOMAIN TemplateWidth
        /\ pos[k] + TemplateWidth[e[k]] <= img.width
        /\ pos[k] - (pos[k - 1] + TemplateWidth[e[k - 1]]) \in -2..5
        /\ img.res[e[k]][pos[k] + 1] >= 55
        /\ \A o \in 0..(img.width - TemplateWidth[e[k]]) :
              o - (pos[k - 1] + TemplateWidth[e[k - 1]]) \in -2..5 =>
                  \/ img.res[e[k]][o + 1] < img.res[e[k]][pos[k] + 1]
                  \/ (img.res[e[k]][o + 1] = img.res[e[k]][pos[k] + 1] /\ pos[k] <= o)

\* the chains of the candidate at x
Chains(img, e, x) ==
    {pos \in [1..Len(e) -> 0..(img.width - 1)] : IsChain(img, e, x, pos)}

RECURSIVE ChainScore(_, _, _, _)
\* the accumulated score of the first k glyphs of a chain
ChainScore(img, e, pos, k) ==
    IF k = 0 THEN 0 ELSE img.res[e[k]][pos[k] + 1] + ChainScore(img, e, pos, k - 1)

\* the 50 best first-digit matches with a score of at least 0.55
FiftyBest(img, first) ==
    {x \in 0..(img.width - TemplateWidth[first]) :
        /\ img.res[first][x + 1] >= 55
        /\ Cardinality({c \in 0..(img.width - TemplateWidth[first]) :
                            \/ img.res[first][c + 1] > img.res[first][x + 1]
                            \/ (img.res[first][c + 1] = img.res[first][x + 1] /\ c < x)}) < 50}

\* e is a digit string whose first digit has a template
Locatable(e) ==
    e # <<>> /\ (\A k \in DOMAIN e : e[k] \in Digits) /\ e[1] \in DOMAIN TemplateWidth

\* box is the box of the chain pos of a candidate with the highest
\* accumulated score among the fifty best
BoxOfBestChain(img, e, box, pos) ==
    /\ box[1] = pos[1]
    /\ box[1] + box[3] = pos[Len(e)] + TemplateWidth[e[Len(e)]]
    /\ \A y \in FiftyBest(img, e[1]) : \A q \in Chains(img, e, y) :
          ChainScore(img, e, q, Len(e)) <= ChainScore(img, e, pos, Len(e))

FindNumberBoxResult(img, e, out) ==
    IF ~Locatable(e) THEN out = None
    ELSE IF \A x \in FiftyBest(img, e[1]) : Chains(img, e, x) = {} THEN out = None
    ELSE /\ out # None
         /\ \E x \in FiftyBest(img, e[1]) : \E pos \in Chains(img, e, x) :
               BoxOfBestChain(img, e, out[1], pos)

\* C22: find_number_box returns no box when the expected string is empty,
\* not all digits, or no candidate among the 50 best first-digit matches of
\* score at least 0.55 completes its chain; otherwise it returns the box of
\* such a candidate with the highest accumulated score, from the left edge of
\* the first glyph to the right edge of the last.
C22_FindNumberBox ==
    called = "find_number_box" =>
        FindNumberBoxResult(call_arg.img, call_arg.expected, call_out)

\* three glyphs have been chained from the left edge to the right edge of
\* the image
C22_Witness ==
    /\ called = "find_number_box"
    /\ call_arg.expected = <<"1", "2", "1">>
    /\ call_arg.img.res["1"][2] = 90
    /\ call_out = Some(<<0, 0, 4, 6>>)

\* n is the ceiling of num / den
IsCeil(n, num, den) == n * den >= num /\ (n - 1) * den < num

\* the stones of one bound follow its seconds: the ceiling of base_stones *
\* sec / base_sec, which is 0 with no seconds left
StonesFollow(stones, base_stones, sec, base_sec) ==
    /\ base_sec > 0 => IsCeil(stones, base_stones * sec, base_sec)
    /\ sec = 0 => stones = 0

\* the status tick gives the distance skill a fresh baseline
DistanceRebaselined ==
    /\ _distance_state' # None
    /\ _distance_state = None \/ _eta_snapshot' # _eta_snapshot

\* the status tick only lets time pass on the distance baseline
DistanceDecayed ==
    /\ _distance_state # None
    /\ _distance_state' # None
    /\ _eta_snapshot' = _eta_snapshot

\* C24: the stones published for the distance skill are, for each bound, the
\* ceiling of base_stones * remaining seconds / base seconds of that bound;
\* they are base_stones at a baseline, do not increase from one status tick
\* to the next between baselines, and are 0 once the seconds left are 0.
C24_StonesFollowSeconds ==
    /\ [](_distance_state # None =>
            /\ StonesFollow(_distance_state[1].stones_min, _distance_state[1].base_stones_min,
                            _distance_state[1].sec_min, _distance_state[1].base_sec_min)
            /\ StonesFollow(_distance_state[1].stones_max, _distance_state[1].base_stones_max,
                            _distance_state[1].sec_max, _distance_state[1].base_sec_max))
    /\ [][(StatusTick /\ DistanceRebaselined) =>
            /\ _distance_state'[1].stones_min = _distance_state'[1].base_stones_min
            /\ _distance_state'[1].stones_max = _distance_state'[1].base_stones_max]_vars
    /\ [][(StatusTick /\ DistanceDecayed) =>
            /\ _distance_state'[1].base_stones_min = _distance_state[1].base_stones_min
            /\ _distance_state'[1].base_stones_max = _distance_state[1].base_stones_max
            /\ _distance_state'[1].stones_min <= _distance_state[1].stones_min
            /\ _distance_state'[1].stones_max <= _distance_state[1].stones_max]_vars

\* the lower bound has run out of seconds and of stones while the upper bound
\* has stones left, fewer than at its baseline
C24_Witness ==
    /\ _distance_state # None
    /\ _distance_state[1].base_stones_min > 0
    /\ _distance_state[1].sec_min = 0
    /\ _distance_state[1].stones_min = 0
    /\ _distance_state[1].stones_max > 0
    /\ _distance_state[1].stones_max < _distance_state[1].base_stones_max

\* the worker begins an iteration and finds the skills pane switched off
HiddenIteration == pc = "loop" /\ pc' # "loop" /\ ~_stop_event /\ ~show_skills

\* the five fields of the ETA state the hidden branch clears are None
EtaCleared ==
    /\ _eta_seconds = None
    /\ _eta_snapshot = None
    /\ _distance_state = None
    /\ _shield_eta_seconds = None
    /\ _shield_snapshot = None

\* an iteration that finds the pane off clears the ETA state and goes to its
\* wait without an analysis pass or an emission, and the wait ends it
HiddenIterationIdle ==
    /\ HiddenIteration =>
            /\ EtaCleared'
            /\ pc' = "hidden"
            /\ UNCHANGED <<readVars, _last_emit, _last_analyze, eta_line, eta_base>>
    /\ (pc = "hidden" /\ pc' # "hidden") =>
            /\ pc' = "wait"
            /\ UNCHANGED <<readVars, etaVars, shieldVars, _last_emit, _last_analyze,
                           statusVars>>

\* the melee ETA line written is the baseline taken by the same status tick
MeleeLineFresh ==
    /\ eta_base # None
    /\ eta_base[1].at = eta_line[1].at
    /\ eta_base[1].remaining = eta_line[1].remaining

\* the shielding ETA stored by the status tick is the baseline of the value
\* read, in the mode selected
ShieldFresh(parsed) ==
    /\ _shield_last_ts' = mono
    /\ _shield_eta_seconds' =
          Some(PartLeft(IF selected_shield_mode = 2 THEN MeleeSeconds[parsed[1][1]] \div 2
                        ELSE MeleeSeconds[parsed[1][1]], parsed[2], TRUE))

\* C27 as stated: a worker iteration that finds show_skills false clears the
\* melee, distance and shielding ETA state and makes no analysis pass and no
\* emission, and the first ETA published after show_skills has become true
\* again is a fresh baseline.
C27_FirstEtaAfterShowFresh ==
    /\ [][HiddenIterationIdle]_vars
    /\ []((eta_line # None /\ eta_line[1].after_show) => MeleeLineFresh)

\* C27: a worker iteration that finds show_skills false clears the melee,
\* distance and shielding ETA state and makes no analysis pass and no
\* emission; the state stays cleared until _update_status runs again, and
\* the ETA that run publishes (melee, distance or shielding) is a fresh
\* baseline.
C27_FirstEtaAfterClearFresh ==
    /\ [][HiddenIterationIdle]_vars
    /\ [](cleared => EtaCleared)
    /\ []((eta_line # None /\ eta_line[1].after_clear) => MeleeLineFresh)
    /\ [][(StatusTick /\ cleared) =>
            /\ _distance_state' # None =>
                    /\ _distance_state'[1].sec_min = _distance_state'[1].base_sec_min
                    /\ _distance_state'[1].sec_max = _distance_state'[1].base_sec_max
            /\ _shield_eta_seconds' # None =>
                    ShieldFresh(_parse_skill_value(last_skills["shielding"]))]_vars

\* the pane has been switched off, an iteration has cleared the ETA state,
\* the pane has been switched on again and the melee ETA has been published
C27_Witness ==
    /\ eta_line # None
    /\ eta_line[1].after_clear
    /\ eta_line[1].after_show
    /\ show_skills
    /\ _shield_eta_seconds # None
    /\ _shield_last_ts = eta_line[1].at

\* the worker begins an iteration with the pane shown and finds another
\* skill selected than at its last look
SelectionChangeObserved ==
    /\ pc = "loop" /\ pc' # "loop" /\ ~_stop_event /\ show_skills
    /\ Lower(selected_melee) # _last_selected_melee

\* the worker begins an iteration with the pane shown and finds another
\* shield mode selected than at its last look
ModeChangeObserved ==
    /\ pc = "loop" /\ pc' # "loop" /\ ~_stop_event /\ show_skills
    /\ selected_shield_mode # _last_shield_mode

\* _update_status finds the ETA snapshot taken for another skill than the
\* one selected
StaleSnapshotObserved ==
    /\ StatusTick
    /\ _eta_snapshot # None
    /\ _eta_snapshot[1] # Lower(selected_melee)

\* C29: a change of the selected skill observed by the worker clears
\* _eta_seconds, _eta_snapshot and _distance_state and, unless the shield
\* mode has changed as well, leaves the shielding ETA state as it is; a
\* change of the shield mode observed clears _shield_eta_seconds and
\* _shield_snapshot and, unless the selection has changed as well, leaves
\* the selected-skill ETA state as it is; a status tick that finds the
\* snapshot of another skill drops it and does not clear the shielding ETA.
C29_ChangeClearsOwnEtaOnly ==
    /\ [][SelectionChangeObserved =>
            /\ _eta_seconds' = None
            /\ _eta_snapshot' = None
            /\ _distance_state' = None
            /\ _last_selected_melee' = Lower(selected_melee)
            /\ ~ModeChangeObserved => UNCHANGED shieldVars]_vars
    /\ [][ModeChangeObserved =>
            /\ _shield_eta_seconds' = None
            /\ _shield_snapshot' = None
            /\ _last_shield_mode' = selected_shield_mode
            /\ ~SelectionChangeObserved => UNCHANGED etaVars]_vars
    /\ [][StaleSnapshotObserved =>
            /\ _eta_snapshot' = None \/ _eta_snapshot'[1] = Lower(selected_melee)
            /\ _eta_seconds' # None =>
                    /\ eta_base' # None
                    /\ eta_base'[1].at = mono
                    /\ _eta_seconds'[1] = eta_base'[1].remaining
            /\ _shield_eta_seconds # None =>
                    /\ _shield_eta_seconds' # None
                    /\ _shield_snapshot' # None]_vars

\* the worker has just observed another selected skill: the ETA of the skill
\* is cleared and the shielding ETA, taken before, is still there
C29_Witness ==
    /\ pc \in {"analyze", "emit"}
    /\ switched
    /\ _last_selected_melee = Lower(selected_melee)
    /\ _last_shield_mode = selected_shield_mode
    /\ _eta_seconds = None
    /\ _eta_snapshot = None
    /\ eta_line # None
    /\ _shield_eta_seconds # None
    /\ _shield_snapshot # None

\* the closed vocabulary of skill keys
SkillKeys == {"fist", "club", "sword", "axe", "distance", "shielding"}

\* a text of the form N or N (P%), N and P digit strings
NormalForm(v) ==
    LET n1 == RunEnd(v, 1, Digits)
        p1 == RunEnd(v, n1 + 2, Digits)
    IN  /\ n1 > 1
        /\ \/ n1 = Len(v) + 1
           \/ /\ At(v, n1, " ")
              /\ At(v, n1 + 1, "(")
              /\ p1 > n1 + 2
              /\ At(v, p1, "%")
              /\ At(v, p1 + 1, ")")
              /\ p1 + 1 = Len(v)

\* C11: every key of last_skills is one of fist, club, sword, axe, distance,
\* shielding, and every value has the form N or N (P%).
C11_SkillsNormalized ==
    \A k \in DOMAIN last_skills :
        k \in SkillKeys /\ NormalForm(last_skills[k])

(***************************************************************************)
(* Properties of ExpTracker                                                *)
(***************************************************************************)
\* the call just made was update(exp) with exp not None
UpdateReturned == call.op = "update" /\ call.exp # None

\* C4: after every update(exp) with exp not None made at time now, no
\* snapshot of the history has a timestamp older than now - MAX_WINDOW_SEC.
C4_NoSnapshotOlderThanWindow ==
    UpdateReturned =>
        \A i \in DOMAIN history : history[i].timestamp >= call.now - MAX_WINDOW_SEC

\* an update has appended to a history with a baseline and has pruned every
\* older snapshot: the one left is not the snapshot of the reset
C4_Witness ==
    /\ UpdateReturned
    /\ Len(history) = 1
    /\ baseline # None
    /\ history[1].exp # baseline[1]

\* C5: update(e) with e not None returns total = e minus the experience of
\* the latest reset (explicit, or implicit by the first update), and update
\* never changes a baseline that is set.
C5_TotalSinceLastReset ==
    /\ [](UpdateReturned => ret[1].total = Some(call.exp[1] - reset_exp[1]))
    /\ [][(TrackerUpdate /\ baseline # None) => baseline' = baseline]_vars

\* reset(1000), then update(1500) returns total 500
C5_Witness ==
    /\ UpdateReturned
    /\ reset_exp = Some(1000)
    /\ ret[1].total = Some(500)

\* the snapshots of h inside the window of w seconds that ends at now
InWindow(h, t, w) == {i \in DOMAIN h : h[i].timestamp >= t - w}

\* the snapshots of h at or before the start of that window
BeforeWindow(h, t, w) == {i \in DOMAIN h : h[i].timestamp <= t - w}

SetMin(S) == CHOOSE x \in S : \A y \in S : x <= y

SetMax(S) == CHOOSE x \in S : \A y \in S : x >= y

\* the delta the window algorithm is to produce
WindowDelta(h, t, w) ==
    IF h = <<>> THEN None
    ELSE IF InWindow(h, t, w) # {}
    THEN Some(h[Len(h)].exp - h[SetMin(InWindow(h, t, w))].exp)
    ELSE IF BeforeWindow(h, t, w) # {}
    THEN Some(h[Len(h)].exp - h[SetMax(BeforeWindow(h, t, w))].exp)
    ELSE None

\* C6: for each window w the delta of update at time now is the latest
\* snapshot's experience minus that of the earliest retained snapshot with
\* timestamp >= now - w, or, with no snapshot in the window, of the latest
\* snapshot with timestamp <= now - w; it is None only on an empty history.
C6_WindowDelta ==
    /\ UpdateReturned =>
        /\ ret[1].m1 = WindowDelta(history, call.now, 1 * 60)
        /\ ret[1].m10 = WindowDelta(history, call.now, 10 * 60)
        /\ ret[1].m60 = WindowDelta(history, call.now, 60 * 60)
    /\ call.op = "delta" =>
        /\ ret[1] = WindowDelta(history, call.now, call.window_sec)
        /\ ret[1] = None <=> history = <<>>

\* an update whose 10-minute window starts after the oldest retained snapshot,
\* so that the 10-minute and the 60-minute deltas differ
C6_Witness ==
    /\ UpdateReturned
    /\ Len(history) >= 2
    /\ SetMin(InWindow(history, call.now, 10 * 60)) > 1
    /\ ret[1].m10 # ret[1].m60

\* the call just made was reset(e, t) with e not None and t the current time
ResetAtNow ==
    /\ call.op = "reset"
    /\ call.exp # None
    /\ call.now = wall
    /\ call.timestamp \in {None, Some(wall)}

\* C7 as claimed: after reset(e, t), update(e) at the same time t with the
\* same experience adds no snapshot to the history.
C7_UpdateAfterResetAddsNothing ==
    [][(ResetAtNow /\ TrackerUpdate /\ call'.exp = call.exp) => history' = history]_vars

\* C7 as amended: after reset(e, t), update(e) at the same time t leaves the
\* baseline unchanged and returns total 0 and zero deltas, and it appends a
\* second snapshot (t, e); a further update at t+60 then leaves three
\* snapshots, two at t and one at t+60.
C7_UpdateAfterResetAppends ==
    [][/\ (ResetAtNow /\ TrackerUpdate /\ call'.exp = call.exp) =>
            /\ history' = <<ExpSnapshot(wall, call.exp[1]), ExpSnapshot(wall, call.exp[1])>>
            /\ baseline' = baseline
            /\ ret'[1] = [m10 |-> Some(0), m60 |-> Some(0), m1 |-> Some(0), total |-> Some(0)]
       /\ (/\ UpdateReturned
           /\ Len(history) = 2
           /\ history[1] = history[2]
           /\ history[1].timestamp = call.now
           /\ wall = call.now + 60
           /\ TrackerUpdate
           /\ call'.exp # None) =>
            /\ Len(history') = 3
            /\ history'[1] = history[1]
            /\ history'[2] = history[1]
            /\ history'[3] = ExpSnapshot(call.now + 60, call'.exp[1])
      ]_vars

\* reset(e, t), update(e) at t and update at t+60 have left three snapshots
C7_Witness ==
    /\ UpdateReturned
    /\ Len(history) = 3
    /\ history[1] = history[2]
    /\ history[1].exp = baseline[1]
    /\ history[3].timestamp = history[1].timestamp + 60
    /\ call.now = history[3].timestamp

\* C8: reset(e, t) with e not None leaves baseline = e and the history equal
\* to the one snapshot (t, e); reset(None) leaves the baseline unset and the
\* history empty; update(e) without a baseline does what reset(e, now) does
\* and returns total 0.
C8_ResetEffect ==
    /\ [](call.op = "reset" =>
            /\ baseline = call.exp
            /\ history = IF call.exp = None THEN <<>>
                         ELSE <<ExpSnapshot(IF call.timestamp = None THEN call.now
                                            ELSE call.timestamp[1], call.exp[1])>>)
    /\ [][(TrackerUpdate /\ baseline = None /\ call'.exp # None) =>
            /\ baseline' = call'.exp
            /\ history' = <<ExpSnapshot(wall, call'.exp[1])>>
            /\ ret'[1].total = Some(0)]_vars

\* a reset with an experience, made after two updates had filled the history
C8_Witness ==
    /\ call.op = "reset"
    /\ call.exp # None
    /\ call.timestamp # None
    /\ call.timestamp[1] < call.now
    /\ Len(history) = 1

\* C23: while fewer than w seconds have passed since the snapshot of the
\* latest reset (explicit, or implicit by the first update), the delta update
\* returns for the window of w seconds equals the total it returns, for the
\* windows of 1, 10 and 60 minutes.
C23_DeltaIsTotalSinceReset ==
    (UpdateReturned /\ reset_at # None) =>
        /\ (call.now - reset_at[1] < 60 => ret[1].m1 = ret[1].total)
        /\ (call.now - reset_at[1] < 600 => ret[1].m10 = ret[1].total)
        /\ (call.now - reset_at[1] < 3600 => ret[1].m60 = ret[1].total)

\* reset(1000) at time 0, then update(1500) at time 60: the delta of ten
\* minutes and the total are 500, and the window of one minute has been left
C23_Witness ==
    /\ UpdateReturned
    /\ reset_exp = Some(1000)
    /\ reset_at = Some(0)
    /\ call.now = 60
    /\ call.exp = Some(1500)
    /\ ret[1].m10 = Some(500)
    /\ ret[1].total = Some(500)

\* C28: after every update(exp) with exp not None the snapshot of the call is
\* the newest of the history and lies in the windows of 1, 10 and 60
\* minutes, so that the first loop of _baseline_for_window finds a snapshot
\* for each of them, and the deltas "1m", "10m", "60m" and "total" returned
\* are all defined.
C28_UpdateReturnsDefined ==
    UpdateReturned =>
        /\ history # <<>>
        /\ history[Len(history)] = ExpSnapshot(call.now, call.exp[1])
        /\ \A w \in Windows : first_at_or_after(history, call.now - w, 1) # 0
        /\ ret[1].m1 # None
        /\ ret[1].m10 # None
        /\ ret[1].m60 # None
        /\ ret[1].total # None

\* an update made more than an hour after the reset: the snapshot of the
\* reset has been pruned and the snapshot of the call is the only one left
C28_Witness ==
    /\ UpdateReturned
    /\ reset_at # None
    /\ reset_at[1] < call.now - MAX_WINDOW_SEC
    /\ Len(history) = 1
    /\ ret[1].m1 = Some(0)
    /\ ret[1].m60 = Some(0)
    /\ ret[1].total # Some(0)

(***************************************************************************)
(* Properties of CustomActionsRunner                                       *)
(***************************************************************************)
\* C25: a countdown of a configuration starts only in a poll that reports a
\* press of its action2 while an entry of the configuration is pending or
\* its action1 is pressed in the same poll; every countdown started takes
\* one pending entry away, so the countdowns started plus the entries still
\* pending are the presses of action1, which the countdowns never exceed.
C25_CountdownNeedsAction1 ==
    /\ [](\A c \in {1, 2} :
            /\ started[c] + CountIn(pending, c) = presses1[c]
            /\ started[c] <= presses1[c])
    /\ [][\A c \in {1, 2} :
            started'[c] # started[c] =>
                /\ Actions[c].action2 \in Range(pressed')
                /\ CountIn(pending, c) > 0 \/ Actions[c].action1 \in Range(pressed')
                /\ started'[c] - started[c]
                       = CountIn(pending, c) + CountIn(pressed', Actions[c].action1)
                /\ CountIn(pending', c) = 0]_vars
    /\ [][\A c \in {1, 2} :
            (CountIn(pending, c) = 0 /\ Actions[c].action1 \notin Range(pressed')) =>
                started'[c] = started[c]]_vars

\* F1 has been pressed twice, F2 in between: the first press has become a
\* countdown of "a", the second waits, and the press of F2 waits for "b"
C25_Witness ==
    /\ presses1[1] = 2
    /\ started[1] = 1
    /\ CountIn(pending, 1) = 1
    /\ started[2] = 1
    /\ \E cd \in countdowns : cd.cfg = 1

\* C30: every countdown tick has started is in self.active until its end
\* time is reached, whatever the interleaving of the runner's thread with
\* the watcher's calls of get_status_lines.
C30_CountdownStaysActive ==
    \A cd \in countdowns : rnow < cd.end => cd \in Range(active)

(***************************************************************************)
(* Properties of run_bot                                                   *)
(***************************************************************************)
\* C26: a process that calls run_bot while another process holds the named
\* mutex exits with status 0 and creates no overlay, tracker, actions runner
\* or watcher, so that no other process has created them while one holds the
\* mutex, and at most one process runs the overlay at a time.
C26_SecondInstanceExits ==
    /\ [][\A i \in Instances :
            (app_pc[i] = "idle" /\ app_pc'[i] # "idle" /\ mutex_handles # {}) =>
                app_pc'[i] = "exit0"]_vars
    /\ [](\A i \in Instances : app_pc[i] = "exit0" => i \notin made)
    /\ [](Cardinality({i \in Instances : app_pc[i] = "running"}) <= 1)

====
